---- MODULE Spec2Model ----
(***************************************************************************)
(* The ABACIA edge functions: the MemoryStore client (brain-client.ts),    *)
(* trace persistence (trace.ts), SAGE's search and embedding backfill,     *)
(* SHADOW's audit, SYNC's cache mirror, the AIR client (dispatch and       *)
(* escalation) and the agent handlers that use it.                         *)
(*                                                                         *)
(* The specifications share the variables:                                 *)
(*   Spec            write, search and SHADOW                              *)
(*   BackfillSpec    SAGE's embedding backfill                             *)
(*   SyncSpec        one SYNC cycle, restore and key expiry, all faults    *)
(*   ConcurrentSpec  two SYNC cycles interleaving, cache faults            *)
(*   EscalationSpec  LUKE, IMAN, RADAR, DAWN and escalateToREACH           *)
(*   DispatchSpec    HEAR, MARK, QUILL, HUNTER, VARA and LUKE's skip       *)
(*   RepeatSpec      SHADOW's alert, LUKE and IMAN over repeated cycles    *)
(*   GritSpec        GRIT's attempts at one problem                        *)
(*   ExtractionSpec  HEAR and MARK, their dispatch answered by LUKE        *)
(*   ConflictSpec    RADAR's conflict detection over sorted calendars      *)
(*   AuditSpec       SHADOW's checks and trust score                       *)
(***************************************************************************)
EXTENDS Integers, Sequences, FiniteSets, TLC

VARIABLES store, clock, resp, bf, cache, configured, cyc, rst, setLog, hnd, chan, calls

vars == <<store, clock, resp, bf, cache, configured, cyc, rst, setLog, hnd, chan, calls>>

(* ------------------------------ bounds --------------------------------- *)

MaxStore == 3
MaxBatch == 3
MaxAgents == 1

(* ------------------------- program constants --------------------------- *)

TraceImportance == 2
SyncImportance == 3
SnapshotAlertImportance == 9
SnapshotOkImportance == 4
TrustAlertThreshold == 80
ReadLimit == 100
TraceTailCap == 50
AgentsTTL == 300
TracesTTL == 600
StateTTL == 300

(* ------------------------------ helpers -------------------------------- *)

Min(a, b) == IF a < b THEN a ELSE b

Max(a, b) == IF a > b THEN a ELSE b

\* all orderings (sequences without repetition) of the finite set S
Orderings(S) == {f \in [1..Cardinality(S) -> S] : \A i, j \in 1..Cardinality(S) : i # j => f[i] # f[j]}

NullRow == [null |-> TRUE]

(* --------------------- MemoryStore (brain-client.ts) ------------------- *)

\* The row the insert of brainWrite produces: the caller's memory spread as
\* is, plus created_at; id and the null embedding come from the table.
InsertRow(memory, now, id) ==
    [id |-> id,
     content |-> memory.content,
     memory_type |-> memory.memory_type,
     importance |-> memory.importance,
     tags |-> memory.tags,
     embedding |-> "null",
     created_at |-> now]

\* brainWrite swallowing the insert error
BrainWriteSwallow(st, memory, now, insertOk) ==
    IF insertOk
    THEN [store |-> Append(st, InsertRow(memory, now, Len(st) + 1)),
          data |-> InsertRow(memory, now, Len(st) + 1), raised |-> FALSE]
    ELSE [store |-> st, data |-> NullRow, raised |-> FALSE]

\* brainWrite: insert(...).select().single(); if (error) throw error; return data
BrainWrite(st, memory, now, insertOk) ==
    IF insertOk
    THEN [store |-> Append(st, InsertRow(memory, now, Len(st) + 1)),
          data |-> InsertRow(memory, now, Len(st) + 1), raised |-> FALSE]
    ELSE [store |-> st, data |-> NullRow, raised |-> TRUE]

\* rows whose content the text-search engine matches against the query
Matches(st, query) == {i \in DOMAIN st : st[i].content = query}

\* .order('importance', {ascending:false}): rows of equal importance come in
\* whatever order the engine produces
ImportanceOrdered(st, ids) ==
    \A i, j \in DOMAIN ids : i < j => st[ids[i]].importance >= st[ids[j]].importance

\* brainSearch: every result the query may produce (ids of the rows returned)
BrainSearch(st, query, limit) ==
    {SubSeq(p, 1, Min(limit, Len(p))) :
        p \in {q \in Orderings(Matches(st, query)) : ImportanceOrdered(st, q)}}

(* ------------------------- TraceRecorder (trace.ts) -------------------- *)

TraceMemory ==
    [content |-> "TRACE", memory_type |-> "system",
     importance |-> TraceImportance, tags |-> {"trace", "routing"}]

\* logTrace without its try/catch
LogTraceRethrow(st, now, insertOk) ==
    [store |-> BrainWrite(st, TraceMemory, now, insertOk).store,
     raised |-> BrainWrite(st, TraceMemory, now, insertOk).raised]

\* logTrace: try { await brainWrite(...) } catch { console.error }
LogTrace(st, now, insertOk) ==
    [store |-> BrainWrite(st, TraceMemory, now, insertOk).store,
     raised |-> FALSE]

(* ----------------------- SAGE backfill (sage/index.ts) ------------------ *)

IdleBackfill == [pc |-> "idle", batch |-> <<>>, i |-> 1, processed |-> 0, total |-> 0, outcomes |-> <<>>]

\* rows the backfill query may select: .is('embedding', null).limit(batchSize),
\* with no ORDER BY, so any batchSize of the rows without embedding, in any order
BackfillBatches(st, batchSize) ==
    UNION {Orderings(S) :
        S \in {T \in SUBSET {i \in DOMAIN st : st[i].embedding = "null"} :
                  Cardinality(T) = Min(batchSize, Cardinality({i \in DOMAIN st : st[i].embedding = "null"}))}}

\* the update written as a row replacement: the other columns fall back to defaults
UpsertEmbedding(st, id, updateOk) ==
    IF updateOk
    THEN [st EXCEPT ![id] = [id |-> id, content |-> st[id].content, memory_type |-> "system",
                             importance |-> 5, tags |-> {}, embedding |-> "vec",
                             created_at |-> st[id].created_at]]
    ELSE st

\* .update({ embedding }).eq('id', memory.id): the client returns a rejected
\* update as { error }, it does not throw
UpdateEmbedding(st, id, updateOk) ==
    IF updateOk THEN [st EXCEPT ![id].embedding = "vec"] ELSE st

\* the loop body without its try/catch: a failed embedding call ends the batch
BackfillIterationAbort(b, st, embedOk, updateOk) ==
    IF embedOk
    THEN [bf |-> [b EXCEPT !.i = b.i + 1, !.processed = b.processed + 1,
                           !.outcomes = Append(b.outcomes, TRUE)],
          store |-> UpdateEmbedding(st, b.batch[b.i], updateOk)]
    ELSE [bf |-> [b EXCEPT !.pc = "error", !.outcomes = Append(b.outcomes, FALSE)],
          store |-> st]

\* one iteration of the for loop of handleBackfill:
\*   try { embedding = await generateEmbedding(..); await update; processed++ }
\*   catch { console.error }
\* outcomes records, per attempted row, whether its embedding call succeeded
BackfillIteration(b, st, embedOk, updateOk) ==
    IF embedOk
    THEN [bf |-> [b EXCEPT !.i = b.i + 1, !.processed = b.processed + 1,
                           !.outcomes = Append(b.outcomes, TRUE)],
          store |-> UpdateEmbedding(st, b.batch[b.i], updateOk)]
    ELSE [bf |-> [b EXCEPT !.i = b.i + 1, !.outcomes = Append(b.outcomes, FALSE)],
          store |-> st]

(* ---------------------- air-client (air-client.ts) ---------------------- *)

EscalatePath == "/api/escalate"

SmsPath == "/api/sms/send"

\* a request to the notification service as the log of the channel keeps it:
\* its endpoint, the urgency it carries (0 on the sms endpoint), the length of
\* its message and what became of the request
Post(path, urgency, len, outcome) ==
    [path |-> path, urgency |-> urgency, len |-> len, outcome |-> outcome]

\* escalateToREACH(urgency, message, source): one awaited fetch of
\* /api/escalate with { urgency, message, source }; the urgency is not looked
\* at, the message is sent as it is, the response is not looked at and a
\* failing fetch is not caught
EscalateToREACH(ch, urgency, len, outcome) ==
    [chan |-> Append(ch, Post(EscalatePath, urgency, len, outcome)),
     raised |-> outcome = "throws"]

\* what the target of a dispatch may do: answer with the JSON body of one of
\* its responses (passed is DRAFT's verdict, "none" where the body has no such
\* key), answer with a body that is no JSON (the platform's error page), or
\* not be reached at all
SkippedAnswer == [kind |-> "json", code |-> 200, status |-> "skipped", passed |-> "none"]

CompleteAnswer == [kind |-> "json", code |-> 200, status |-> "complete", passed |-> "none"]

ErrorAnswer == [kind |-> "json", code |-> 500, status |-> "error", passed |-> "none"]

TargetOutcomes ==
    {SkippedAnswer, CompleteAnswer, ErrorAnswer,
     [kind |-> "json", code |-> 200, status |-> "complete", passed |-> "yes"],
     [kind |-> "json", code |-> 200, status |-> "complete", passed |-> "no"],
     [kind |-> "html", code |-> 502, status |-> "none", passed |-> "none"],
     [kind |-> "throws", code |-> 0, status |-> "none", passed |-> "none"]}

\* `${SUPABASE_URL}/functions/v1/${targetAgent.toLowerCase()}`
EndpointOf(targetAgent) ==
    IF targetAgent = "LUKE" THEN "/functions/v1/luke"
    ELSE IF targetAgent = "DRAFT" THEN "/functions/v1/draft"
    ELSE IF targetAgent = "QUILL" THEN "/functions/v1/quill"
    ELSE "/functions/v1/other"

\* the body dispatchAgent posts: JSON.stringify({ intent, request })
DispatchBody(intent, request) == [intent |-> intent, request |-> request]

\* response.json(): the parsed body; a body that is no JSON makes it throw
ResponseJson(answer) ==
    IF answer.kind = "json"
    THEN [value |-> [status |-> answer.status, passed |-> answer.passed], raised |-> FALSE]
    ELSE [value |-> NullRow, raised |-> TRUE]

\* dispatchAgent repeating the request once when the transport fails and
\* answering null when that fails too
DispatchAgentRetry(log, targetAgent, intent, request, answer) ==
    IF answer.kind = "throws"
    THEN [calls |-> log \o <<[url |-> EndpointOf(targetAgent), body |-> DispatchBody(intent, request)],
                            [url |-> EndpointOf(targetAgent), body |-> DispatchBody(intent, request)]>>,
          value |-> NullRow, raised |-> FALSE]
    ELSE [calls |-> Append(log, [url |-> EndpointOf(targetAgent), body |-> DispatchBody(intent, request)]),
          value |-> ResponseJson(answer).value, raised |-> ResponseJson(answer).raised]

\* dispatchAgent(targetAgent, intent, request): one awaited fetch of the
\* target's function with { intent, request }, then return response.json();
\* nothing is caught and the status of the response is not looked at
DispatchAgent(log, targetAgent, intent, request, answer) ==
    IF answer.kind = "throws"
    THEN [calls |-> Append(log, [url |-> EndpointOf(targetAgent), body |-> DispatchBody(intent, request)]),
          value |-> NullRow, raised |-> TRUE]
    ELSE [calls |-> Append(log, [url |-> EndpointOf(targetAgent), body |-> DispatchBody(intent, request)]),
          value |-> ResponseJson(answer).value, raised |-> ResponseJson(answer).raised]

(* -------------------------- SHADOW (shadow/index.ts) ------------------- *)

EndpointChecks == {"ABACIA_ALIVE", "REACH_ALIVE", "AIR_STATUS", "EMAIL_ENDPOINT", "OMI_MANIFEST"}

BrainReadOutcomes == {"array", "null", "throws"}

Penalty(pass, name, weight) == IF pass[name] THEN 0 ELSE weight

\* runAudit: trustScore starts at 100; each failed endpoint check subtracts its
\* weight; the BRAIN_READ check subtracts 15 only in its catch branch
RunAudit(pass, brain) ==
    [trustScore |->
        Max(0, 100 - Penalty(pass, "ABACIA_ALIVE", 25) - Penalty(pass, "REACH_ALIVE", 25)
                   - Penalty(pass, "AIR_STATUS", 15) - Penalty(pass, "EMAIL_ENDPOINT", 10)
                   - Penalty(pass, "OMI_MANIFEST", 10)
                   - (IF brain = "throws" THEN 15 ELSE 0)),
     checksRun |-> 6,
     checksPassed |-> Cardinality({n \in EndpointChecks : pass[n]}) + (IF brain = "array" THEN 1 ELSE 0)]

\* storeSnapshot's memory
SnapshotMemory(snapshot) ==
    [content |-> "SHADOW", memory_type |-> "system",
     importance |-> IF snapshot.trustScore < TrustAlertThreshold
                    THEN SnapshotAlertImportance ELSE SnapshotOkImportance,
     tags |-> {"shadow", "snapshot", IF snapshot.trustScore < TrustAlertThreshold THEN "alert" ELSE "ok"}]

SmsCap == 160

\* the digits of a score of 0..100 as the template string prints it
Digits(n) == IF n >= 100 THEN 3 ELSE IF n >= 10 THEN 2 ELSE 1

\* criticalIssues: the hallucinations of the failed checks whose name holds
\* ALIVE; their claims `${name} should be working` joined by ', '
CriticalCount(pass) == Cardinality({n \in {"ABACIA_ALIVE", "REACH_ALIVE"} : ~pass[n]})

CriticalClaimsLength(pass) ==
    (IF pass["ABACIA_ALIVE"] THEN 0 ELSE 30) + (IF pass["REACH_ALIVE"] THEN 0 ELSE 29)
    + (IF CriticalCount(pass) = 2 THEN 2 ELSE 0)

\* `SHADOW: Trust ${trustScore}%\n${n} critical: ${claims}` behind its emoji
AlertMessageLength(pass, trustScore) ==
    17 + Digits(trustScore) + 2 + 1 + 11 + CriticalClaimsLength(pass)

\* alertBrandon with a cooldown: nothing either while the store holds the
\* snapshot of an earlier audit that alerted
AlertBrandonCooldown(ch, pass, trustScore, outcome) ==
    IF trustScore >= TrustAlertThreshold
       \/ \E i \in DOMAIN store : store[i].content = "SHADOW" /\ store[i].importance = SnapshotAlertImportance
    THEN ch
    ELSE Append(ch, Post(SmsPath, 0, Min(AlertMessageLength(pass, trustScore), SmsCap), outcome))

\* alertBrandon: nothing at a trust score of 80 or more; else one fetch of
\* /api/sms/send with message.substring(0, 160), inside try/catch
AlertBrandon(ch, pass, trustScore, outcome) ==
    IF trustScore >= TrustAlertThreshold THEN ch
    ELSE Append(ch, Post(SmsPath, 0, Min(AlertMessageLength(pass, trustScore), SmsCap), outcome))

\* the serve handler of SHADOW: runAudit, storeSnapshot, alert, response;
\* an exception of storeSnapshot lands in the catch block (HTTP 500) before
\* the alert is looked at
ShadowServe(st, now, pass, brain, insertOk, outcome) ==
    IF BrainWrite(st, SnapshotMemory(RunAudit(pass, brain)), now, insertOk).raised
    THEN [store |-> BrainWrite(st, SnapshotMemory(RunAudit(pass, brain)), now, insertOk).store,
          chan |-> <<>>,
          resp |-> [op |-> "shadow", rejected |-> ~insertOk, status |-> "error", code |-> 500]]
    ELSE [store |-> BrainWrite(st, SnapshotMemory(RunAudit(pass, brain)), now, insertOk).store,
          chan |-> IF RunAudit(pass, brain).trustScore < TrustAlertThreshold
                   THEN AlertBrandon(<<>>, pass, RunAudit(pass, brain).trustScore, outcome)
                   ELSE <<>>,
          resp |-> [op |-> "shadow", rejected |-> ~insertOk, status |-> "complete", code |-> 200,
                    trustScore |-> RunAudit(pass, brain).trustScore,
                    alertSent |-> RunAudit(pass, brain).trustScore < TrustAlertThreshold]]

(* --------------------------- SYNC (sync/index.ts) ---------------------- *)

AgentsKey == "aba:agents:registry"

TracesKey == "aba:traces:recent"

StateKey == "aba:state:current"

CacheKeys == {AgentsKey, TracesKey, StateKey}

Absent == [present |-> FALSE]

\* what a request to the cache's REST endpoint may do: the server executes it;
\* it answers with an HTTP error (fetch resolves, nothing executed); or the
\* transport fails (fetch throws, nothing executed)
FetchOutcomes == {"ok", "rejected", "throws"}

\* the SET request of upstashSet, first-write-wins (SETNX)
UpstashSetRequestNX(cch, key, value, conf, outcome) ==
    IF ~conf THEN [cache |-> cch, applied |-> FALSE, next |-> "return", ret |-> FALSE, raised |-> FALSE]
    ELSE IF outcome = "throws"
    THEN [cache |-> cch, applied |-> FALSE, next |-> "return", ret |-> FALSE, raised |-> FALSE]
    ELSE IF outcome = "ok"
    THEN [cache |-> IF cch[key].present THEN cch
                    ELSE [cch EXCEPT ![key] = [present |-> TRUE, json |-> value, ttl |-> 0]],
          applied |-> TRUE, next |-> "expire", ret |-> TRUE, raised |-> FALSE]
    ELSE [cache |-> cch, applied |-> FALSE, next |-> "expire", ret |-> TRUE, raised |-> FALSE]

\* the SET request of upstashSet without the try/catch around it
UpstashSetRequestRethrow(cch, key, value, conf, outcome) ==
    IF ~conf THEN [cache |-> cch, applied |-> FALSE, next |-> "return", ret |-> FALSE, raised |-> FALSE]
    ELSE IF outcome = "throws"
    THEN [cache |-> cch, applied |-> FALSE, next |-> "return", ret |-> FALSE, raised |-> TRUE]
    ELSE IF outcome = "ok"
    THEN [cache |-> [cch EXCEPT ![key] = [present |-> TRUE, json |-> value, ttl |-> 0]],
          applied |-> TRUE, next |-> "expire", ret |-> TRUE, raised |-> FALSE]
    ELSE [cache |-> cch, applied |-> FALSE, next |-> "expire", ret |-> TRUE, raised |-> FALSE]

\* upstashSet up to and including its first request:
\*   if (!UPSTASH_URL || !UPSTASH_TOKEN) return false;
\*   try { await fetch(`/set/${key}`, body: JSON.stringify(value)) ... }
\*   catch { return false }
\* SET replaces the value of the key and clears its expiry (ttl 0 = none).
UpstashSetRequest(cch, key, value, conf, outcome) ==
    IF ~conf THEN [cache |-> cch, applied |-> FALSE, next |-> "return", ret |-> FALSE, raised |-> FALSE]
    ELSE IF outcome = "throws"
    THEN [cache |-> cch, applied |-> FALSE, next |-> "return", ret |-> FALSE, raised |-> FALSE]
    ELSE IF outcome = "ok"
    THEN [cache |-> [cch EXCEPT ![key] = [present |-> TRUE, json |-> value, ttl |-> 0]],
          applied |-> TRUE, next |-> "expire", ret |-> TRUE, raised |-> FALSE]
    ELSE [cache |-> cch, applied |-> FALSE, next |-> "expire", ret |-> TRUE, raised |-> FALSE]

\* the second request of upstashSet: if (ttl > 0) await fetch(`/expire/${key}/${ttl}`);
\* EXPIRE on a key that is not there does nothing
UpstashExpireRequest(cch, key, ttl, outcome) ==
    IF outcome = "throws"
    THEN [cache |-> cch, ret |-> FALSE, raised |-> FALSE]
    ELSE IF outcome = "ok" /\ cch[key].present
    THEN [cache |-> [cch EXCEPT ![key].ttl = ttl], ret |-> TRUE, raised |-> FALSE]
    ELSE [cache |-> cch, ret |-> TRUE, raised |-> FALSE]

\* upstashGet without the try/catch around it
UpstashGetRethrow(cch, key, conf, outcome) ==
    IF ~conf THEN [value |-> NullRow, raised |-> FALSE]
    ELSE IF outcome = "throws" THEN [value |-> NullRow, raised |-> TRUE]
    ELSE IF outcome = "ok" /\ cch[key].present THEN [value |-> cch[key].json, raised |-> FALSE]
    ELSE [value |-> NullRow, raised |-> FALSE]

\* upstashGet: null when not configured, when the request fails and when the
\* answer carries no result; otherwise JSON.parse of the stored string
UpstashGet(cch, key, conf, outcome) ==
    IF ~conf THEN [value |-> NullRow, raised |-> FALSE]
    ELSE IF outcome = "throws" THEN [value |-> NullRow, raised |-> FALSE]
    ELSE IF outcome = "ok" /\ cch[key].present THEN [value |-> cch[key].json, raised |-> FALSE]
    ELSE [value |-> NullRow, raised |-> FALSE]

\* the rows of ids S by created_at descending
RECURSIVE ByCreatedDesc(_, _)
ByCreatedDesc(st, S) ==
    IF S = {} THEN <<>>
    ELSE <<CHOOSE i \in S : \A j \in S : st[i].created_at > st[j].created_at \/ (st[i].created_at = st[j].created_at /\ i >= j)>>
         \o ByCreatedDesc(st, S \ {CHOOSE i \in S : \A j \in S : st[i].created_at > st[j].created_at \/ (st[i].created_at = st[j].created_at /\ i >= j)})

\* syncAgents' query: rows of memory_type 'aba_agents', limit 100; the error
\* of the query is not looked at, a failed read leaves agentRecords null
AgentRecords(st, readOk) ==
    IF readOk THEN Min(ReadLimit, Cardinality({i \in DOMAIN st : st[i].memory_type = "aba_agents"}))
    ELSE 0

\* syncTraces' query: rows tagged 'trace' by created_at descending, limit 100
TraceRecords(st, readOk) ==
    IF readOk
    THEN SubSeq(ByCreatedDesc(st, {i \in DOMAIN st : "trace" \in st[i].tags}), 1,
                Min(ReadLimit, Cardinality({i \in DOMAIN st : "trace" \in st[i].tags})))
    ELSE <<>>

\* the state objects; `by` stands for the timestamp, which tells the cycles apart
AgentsState(c, agentCount) == [by |-> c, agentCount |-> agentCount]

TracesState(c, traceCount) == [by |-> c, traceCount |-> traceCount]

\* { ...state, traces: traces?.slice(0, 50) }: JSON.stringify drops the key
\* when the read failed and traces is undefined
TracesCacheValue(c, traces, readOk) ==
    IF readOk
    THEN [by |-> c, traceCount |-> Len(traces), traces |-> SubSeq(traces, 1, Min(TraceTailCap, Len(traces)))]
    ELSE [by |-> c, traceCount |-> 0]

\* syncAll's results object with summaries that are not its own calls' results
AllStateBlank(c, agentCount, traceCount, conf) ==
    [by |-> c, agents |-> AgentsState(c, 0), traces |-> TracesState(c, 0),
     upstashConnected |-> conf]

\* syncAll's results object
AllState(c, agentCount, traceCount, conf) ==
    [by |-> c, agents |-> AgentsState(c, agentCount), traces |-> TracesState(c, traceCount),
     upstashConnected |-> conf]

SyncMemory ==
    [content |-> "SYNC AGENTS", memory_type |-> "system",
     importance |-> SyncImportance, tags |-> {"sync", "agents"}]

\* syncAll with its two calls exchanged
SyncAllOrderTracesFirst ==
    <<"traces_read", "traces_set", "traces_expire", "traces_trace",
      "agents_read", "agents_set", "agents_expire", "agents_write", "agents_trace",
      "state_set", "state_expire", "state_trace", "done">>

\* the awaits of syncAll in program order: syncAgents (read, upstashSet's two
\* requests, brainWrite, logTrace), syncTraces (read, upstashSet, logTrace),
\* then upstashSet of the aggregate and logTrace
SyncAllOrder ==
    <<"agents_read", "agents_set", "agents_expire", "agents_write", "agents_trace",
      "traces_read", "traces_set", "traces_expire", "traces_trace",
      "state_set", "state_expire", "state_trace", "done">>

After(pc) == SyncAllOrder[(CHOOSE i \in DOMAIN SyncAllOrder : SyncAllOrder[i] = pc) + 1]

KeyOf(pc) ==
    IF pc \in {"agents_set", "agents_expire"} THEN AgentsKey
    ELSE IF pc \in {"traces_set", "traces_expire"} THEN TracesKey
    ELSE StateKey

TTLOf(pc) ==
    IF pc \in {"agents_set", "agents_expire"} THEN AgentsTTL
    ELSE IF pc \in {"traces_set", "traces_expire"} THEN TracesTTL
    ELSE StateTTL

(* ---------------------------- LUKE (luke/index.ts) --------------------- *)

EscalateUrgency == 8

MinContentLength == 10

MinItemLength == 5

MaxItemLength == 200

\* a match of one of the ACTION_PATTERNS in the content: the captured text
\* (text names it, len is its length), the type and base urgency of the
\* pattern, and whether the text holds one of today|tonight|asap|urgent|
\* immediately and one of tomorrow|next week
Match(text, len, type, baseUrgency, soon, later) ==
    [text |-> text, len |-> len, type |-> type, baseUrgency |-> baseUrgency,
     soon |-> soon, later |-> later]

\* urgency = baseUrgency; soon: min(10, urgency + 2); later: max(1, urgency - 1)
ItemUrgency(m) ==
    IF m.later
    THEN Max(1, (IF m.soon THEN Min(10, m.baseUrgency + 2) ELSE m.baseUrgency) - 1)
    ELSE IF m.soon THEN Min(10, m.baseUrgency + 2) ELSE m.baseUrgency

\* the loop of extractActionItems over the matches in pattern order: texts of
\* fewer than 5 or more than 200 characters and texts seen before are passed over
RECURSIVE CollectItems(_, _)
CollectItems(matches, seen) ==
    IF matches = <<>> THEN <<>>
    ELSE IF Head(matches).len < MinItemLength \/ Head(matches).len > MaxItemLength
            \/ Head(matches).text \in seen
    THEN CollectItems(Tail(matches), seen)
    ELSE <<[text |-> Head(matches).text, len |-> Head(matches).len, type |-> Head(matches).type,
            urgency |-> ItemUrgency(Head(matches))]>>
         \o CollectItems(Tail(matches), seen \cup {Head(matches).text})

\* items.sort((a, b) => b.urgency - a.urgency): stable, urgency descending
RECURSIVE SortByUrgency(_, _)
SortByUrgency(items, sorted) ==
    IF items = <<>> THEN sorted
    ELSE SortByUrgency(Tail(items),
            SubSeq(sorted, 1, Cardinality({i \in DOMAIN sorted : sorted[i].urgency >= Head(items).urgency}))
            \o <<Head(items)>>
            \o SubSeq(sorted, Cardinality({i \in DOMAIN sorted : sorted[i].urgency >= Head(items).urgency}) + 1,
                      Len(sorted)))

ExtractActionItems(matches) == SortByUrgency(CollectItems(matches, {}), <<>>)

\* `URGENT ${item.type.toUpperCase()}: ${item.text}`
UrgentMessageLength(item) == 7 + Len(item.type) + 2 + item.len

ItemMemory(item) ==
    [content |-> "ACTION ITEM", memory_type |-> "system", importance |-> item.urgency,
     tags |-> {"action_needed", "luke", item.type}]

\* one iteration of the loop with its two calls exchanged: escalateToREACH
\* first, then brainWrite of the item
LukeIterationEscalateFirst(h, st, ch, now, insertOk, outcome) ==
    IF h.items[h.i].urgency >= EscalateUrgency
       /\ EscalateToREACH(ch, h.items[h.i].urgency, UrgentMessageLength(h.items[h.i]), outcome).raised
    THEN [hnd |-> [h EXCEPT !.pc = "error"], store |-> st,
          chan |-> EscalateToREACH(ch, h.items[h.i].urgency,
                                   UrgentMessageLength(h.items[h.i]), outcome).chan]
    ELSE [hnd |-> [h EXCEPT !.pc = IF BrainWrite(st, ItemMemory(h.items[h.i]), now, insertOk).raised
                                  THEN "error" ELSE "loop",
                            !.i = IF BrainWrite(st, ItemMemory(h.items[h.i]), now, insertOk).raised
                                  THEN h.i ELSE h.i + 1],
          store |-> BrainWrite(st, ItemMemory(h.items[h.i]), now, insertOk).store,
          chan |-> IF h.items[h.i].urgency >= EscalateUrgency
                   THEN EscalateToREACH(ch, h.items[h.i].urgency,
                                        UrgentMessageLength(h.items[h.i]), outcome).chan
                   ELSE ch]

\* one iteration of the loop over the items: brainWrite of the item, then, if
\* its urgency is at least 8, escalateToREACH; an exception of either leaves
\* the loop for the catch block of the handler
LukeIteration(h, st, ch, now, insertOk, outcome) ==
    IF BrainWrite(st, ItemMemory(h.items[h.i]), now, insertOk).raised
    THEN [hnd |-> [h EXCEPT !.pc = "error"], store |-> st, chan |-> ch]
    ELSE IF h.items[h.i].urgency >= EscalateUrgency
    THEN [hnd |-> [h EXCEPT !.pc = IF EscalateToREACH(ch, h.items[h.i].urgency,
                                                     UrgentMessageLength(h.items[h.i]), outcome).raised
                                  THEN "error" ELSE "loop",
                            !.i = h.i + 1],
          store |-> BrainWrite(st, ItemMemory(h.items[h.i]), now, insertOk).store,
          chan |-> EscalateToREACH(ch, h.items[h.i].urgency,
                                   UrgentMessageLength(h.items[h.i]), outcome).chan]
    ELSE [hnd |-> [h EXCEPT !.i = h.i + 1],
          store |-> BrainWrite(st, ItemMemory(h.items[h.i]), now, insertOk).store,
          chan |-> ch]

(* ------------------------------ IMAN (iman) --------------------------- *)

ImanEscalationUrgency == 9

JobAlertImportance == 7

\* an email of the inbox as categorizeEmail sees it: whether subject and
\* snippet hold one of URGENT_KEYWORDS, one of JOB_KEYWORDS, or one of
\* client|meeting|deadline, and the lengths of its sender and subject
Email(urgentKw, jobKw, workKw, fromLen, subjectLen) ==
    [urgentKw |-> urgentKw, jobKw |-> jobKw, workKw |-> workKw,
     fromLen |-> fromLen, subjectLen |-> subjectLen]

\* categorizeEmail: the first of urgent, job alert, work that applies
CategorizeEmail(email) ==
    IF email.urgentKw THEN [risk |-> "critical", urgency |-> 9, type |-> "urgent"]
    ELSE IF email.jobKw THEN [risk |-> "high", urgency |-> 7, type |-> "job_alert"]
    ELSE IF email.workKw THEN [risk |-> "high", urgency |-> 6, type |-> "work"]
    ELSE [risk |-> "low", urgency |-> 3, type |-> "general"]

\* categorized.filter(e => e.risk === 'critical')
CriticalEmails(emails) == SelectSeq(emails, LAMBDA e : CategorizeEmail(e).risk = "critical")

\* categorized.filter(e => e.type === 'job_alert')
JobAlerts(emails) == SelectSeq(emails, LAMBDA e : CategorizeEmail(e).type = "job_alert")

\* `URGENT EMAIL from ${email.from}: ${email.subject}`
UrgentEmailLength(email) == 20 + email.fromLen + email.subjectLen

JobAlertMemory ==
    [content |-> "JOB ALERT", memory_type |-> "system", importance |-> JobAlertImportance,
     tags |-> {"job_alert", "iman", "action_needed"}]

\* one iteration of the loop over the critical emails: escalateToREACH(9, ..),
\* whose exception leaves the loop for the catch block of the handler
ImanEscalation(h, ch, outcome) ==
    [hnd |-> [h EXCEPT !.pc = IF EscalateToREACH(ch, ImanEscalationUrgency,
                                                 UrgentEmailLength(h.items[h.i]), outcome).raised
                              THEN "error"
                              ELSE IF h.i = Len(h.items) THEN "store" ELSE "escalate",
                       !.i = h.i + 1],
     chan |-> EscalateToREACH(ch, ImanEscalationUrgency, UrgentEmailLength(h.items[h.i]), outcome).chan]

(* --------------------------- RADAR (radar/index.ts) -------------------- *)

ReminderWindow == 15

RadarScanImportance == 4

\* a calendar event: the length of its summary, its start and its end in
\* minutes from now
Event(summaryLen, start, end) == [summaryLen |-> summaryLen, start |-> start, end |-> end]

\* checkUpcomingMeetings: start > now && start <= now + 15 min
CheckUpcomingMeetings(events) ==
    SelectSeq(events, LAMBDA e : e.start > 0 /\ e.start <= ReminderWindow)

\* checkForConflicts: each event against the one that follows it in the list
CheckForConflicts(events) ==
    {i \in 1..(Len(events) - 1) : events[i].end > events[i + 1].start}

\* `MEETING IN 15 MIN: ${meeting.summary}` behind its emoji
ReminderLength(meeting) == 21 + meeting.summaryLen

\* the reminder of one meeting: a fetch of /api/sms/send with the message as
\* it is, not caught
RadarReminder(h, ch, outcome) ==
    [hnd |-> [h EXCEPT !.pc = IF outcome = "throws" THEN "error"
                              ELSE IF h.i = Len(h.items) THEN "store" ELSE "remind",
                       !.i = h.i + 1],
     chan |-> Append(ch, Post(SmsPath, 0, ReminderLength(h.items[h.i]), outcome))]

RadarMemory ==
    [content |-> "RADAR SCAN", memory_type |-> "system", importance |-> RadarScanImportance,
     tags |-> {"radar", "calendar", "scan"}]

(* ---------------------------- DAWN (dawn/index.ts) --------------------- *)

BriefingCap == 1500

BriefingImportance == 7

ActionPreviewCap == 80

PendingPreviewCap == 60

\* the closing line of generateBriefing for the audience
ClosingLength(audience) ==
    IF audience = "brandon" THEN 54 ELSE IF audience = "cj" THEN 48 ELSE IF audience = "bj" THEN 47 ELSE 0

\* generateBriefing: the greeting with the date, up to 5 action items with a
\* preview of at most 80 characters each, up to 3 pending reviews with a
\* preview of at most 60, and the closing line; contentLen is the length of
\* the content of the rows read
BriefingLength(audience, actionItems, pendingItems, contentLen) ==
    64
    + (IF actionItems > 0
       THEN 20 + Digits(actionItems) + Min(actionItems, 5) * (4 + Min(contentLen, ActionPreviewCap)) + 1
       ELSE 0)
    + (IF pendingItems > 0
       THEN 23 + Digits(pendingItems) + Min(pendingItems, 3) * (4 + Min(contentLen, PendingPreviewCap)) + 1
       ELSE 0)
    + ClosingLength(audience)

\* sendSMS: one fetch of /api/sms/send with message.substring(0, 1500), not caught
SendSMS(ch, len, outcome) ==
    [chan |-> Append(ch, Post(SmsPath, 0, Min(len, BriefingCap), outcome)),
     raised |-> outcome = "throws"]

BriefingMemory(audience) ==
    [content |-> "DAWN BRIEFING", memory_type |-> "system", importance |-> BriefingImportance,
     tags |-> {"dawn", "briefing", audience}]

\* the serve handler of DAWN after its two reads (a failed read yields []):
\* brainWrite of the briefing, sendSMS when the audience is brandon, logTrace,
\* response; an exception of brainWrite or of sendSMS lands in the catch block
DawnServe(st, now, audience, len, insertOk, outcome, traceOk) ==
    IF BrainWrite(st, BriefingMemory(audience), now, insertOk).raised
    THEN [store |-> st, chan |-> <<>>, clock |-> now,
          resp |-> [op |-> "dawn", status |-> "error", code |-> 500]]
    ELSE IF audience = "brandon" /\ SendSMS(<<>>, len, outcome).raised
    THEN [store |-> BrainWrite(st, BriefingMemory(audience), now, insertOk).store,
          chan |-> SendSMS(<<>>, len, outcome).chan, clock |-> now + 1,
          resp |-> [op |-> "dawn", status |-> "error", code |-> 500]]
    ELSE [store |-> LogTrace(BrainWrite(st, BriefingMemory(audience), now, insertOk).store,
                             now + 1, traceOk).store,
          chan |-> IF audience = "brandon" THEN SendSMS(<<>>, len, outcome).chan ELSE <<>>,
          clock |-> IF traceOk THEN now + 2 ELSE now + 1,
          resp |-> [op |-> "dawn", status |-> "complete", code |-> 200]]

(* ------------------- HEAR, MARK, QUILL, HUNTER, VARA -------------------- *)

EmptyObject == <<>>

TranscriptMemory ==
    [content |-> "HEAR TRANSCRIPT", memory_type |-> "system", importance |-> 5,
     tags |-> {"hear", "transcript", "omi"}]

\* the serve handler of HEAR: a body that does not parse lands in the catch
\* block; transcript = body.transcript || body.text || ''; no transcript is
\* answered 'skipped'; else brainWrite, dispatchAgent('LUKE', { content:
\* transcript }, { source: 'hear' }) whose result is dropped, and the result
HearServe(st, now, body, insertOk, answer) ==
    IF ~body.parses
    THEN [store |-> st, calls |-> <<>>, got |-> NullRow, clock |-> now,
          resp |-> [op |-> "hear", status |-> "error", code |-> 500, type |-> "json"]]
    ELSE IF (IF body.transcript # "" THEN body.transcript ELSE body.text) = ""
    THEN [store |-> st, calls |-> <<>>, got |-> NullRow, clock |-> now,
          resp |-> [op |-> "hear", status |-> "skipped", code |-> 200, type |-> "json"]]
    ELSE IF BrainWrite(st, TranscriptMemory, now, insertOk).raised
    THEN [store |-> st, calls |-> <<>>, got |-> NullRow, clock |-> now,
          resp |-> [op |-> "hear", status |-> "error", code |-> 500, type |-> "json"]]
    ELSE [store |-> BrainWrite(st, TranscriptMemory, now, insertOk).store,
          calls |-> DispatchAgent(<<>>, "LUKE",
                       [content |-> IF body.transcript # "" THEN body.transcript ELSE body.text],
                       [source |-> "hear"], answer).calls,
          got |-> DispatchAgent(<<>>, "LUKE",
                       [content |-> IF body.transcript # "" THEN body.transcript ELSE body.text],
                       [source |-> "hear"], answer).value,
          clock |-> now + 1,
          resp |-> IF DispatchAgent(<<>>, "LUKE",
                       [content |-> IF body.transcript # "" THEN body.transcript ELSE body.text],
                       [source |-> "hear"], answer).raised
                   THEN [op |-> "hear", status |-> "error", code |-> 500, type |-> "json"]
                   ELSE [op |-> "hear", status |-> "complete", code |-> 200, type |-> "json"]]

ReportMemory ==
    [content |-> "MEETING AFTER REPORT", memory_type |-> "system", importance |-> 7,
     tags |-> {"mark", "meeting", "mar"}]

\* the serve handler of MARK: no transcript is answered 'skipped'; else
\* dispatchAgent('LUKE', { content: transcript, source: 'mark' }, {}) whose
\* result is dropped, brainWrite of the report, and the result
MarkServe(st, now, body, insertOk, answer) ==
    IF ~body.parses
    THEN [store |-> st, calls |-> <<>>, got |-> NullRow, clock |-> now,
          resp |-> [op |-> "mark", status |-> "error", code |-> 500, type |-> "json"]]
    ELSE IF body.transcript = ""
    THEN [store |-> st, calls |-> <<>>, got |-> NullRow, clock |-> now,
          resp |-> [op |-> "mark", status |-> "skipped", code |-> 200, type |-> "json"]]
    ELSE IF DispatchAgent(<<>>, "LUKE", [content |-> body.transcript, source |-> "mark"],
                          EmptyObject, answer).raised
    THEN [store |-> st,
          calls |-> DispatchAgent(<<>>, "LUKE", [content |-> body.transcript, source |-> "mark"],
                                  EmptyObject, answer).calls,
          got |-> NullRow, clock |-> now,
          resp |-> [op |-> "mark", status |-> "error", code |-> 500, type |-> "json"]]
    ELSE [store |-> BrainWrite(st, ReportMemory, now, insertOk).store,
          calls |-> DispatchAgent(<<>>, "LUKE", [content |-> body.transcript, source |-> "mark"],
                                  EmptyObject, answer).calls,
          got |-> DispatchAgent(<<>>, "LUKE", [content |-> body.transcript, source |-> "mark"],
                                EmptyObject, answer).value,
          clock |-> IF insertOk THEN now + 1 ELSE now,
          resp |-> IF BrainWrite(st, ReportMemory, now, insertOk).raised
                   THEN [op |-> "mark", status |-> "error", code |-> 500, type |-> "json"]
                   ELSE [op |-> "mark", status |-> "complete", code |-> 200, type |-> "json"]]

QuillMemory(type) ==
    [content |-> "QUILL OUTPUT", memory_type |-> "system", importance |-> 5,
     tags |-> {"quill", "writing", IF type = "" THEN "general" ELSE type}]

\* the content QUILL writes for the type asked for
QuillContent(body) ==
    IF body.type = "cover_letter" THEN "Dear Hiring Manager"
    ELSE IF body.context # "" THEN body.context
    ELSE IF body.type = "email" THEN "Email content here..." ELSE "Content..."

\* draftResult?.passed ?? true
DraftPassed(draftResult) == draftResult.passed # "no"

\* the serve handler of QUILL: brainSearch for examples, the content,
\* dispatchAgent('DRAFT', { content }, {}), brainWrite, and the result with
\* draftPassed; every exception lands in the catch block
QuillServe(st, now, body, searchOk, insertOk, answer) ==
    IF ~body.parses \/ ~searchOk
    THEN [store |-> st, calls |-> <<>>, got |-> NullRow, clock |-> now,
          resp |-> [op |-> "quill", status |-> "error", code |-> 500, type |-> "json"]]
    ELSE IF DispatchAgent(<<>>, "DRAFT", [content |-> QuillContent(body)], EmptyObject, answer).raised
    THEN [store |-> st,
          calls |-> DispatchAgent(<<>>, "DRAFT", [content |-> QuillContent(body)], EmptyObject, answer).calls,
          got |-> NullRow, clock |-> now,
          resp |-> [op |-> "quill", status |-> "error", code |-> 500, type |-> "json"]]
    ELSE [store |-> BrainWrite(st, QuillMemory(body.type), now, insertOk).store,
          calls |-> DispatchAgent(<<>>, "DRAFT", [content |-> QuillContent(body)], EmptyObject, answer).calls,
          got |-> DispatchAgent(<<>>, "DRAFT", [content |-> QuillContent(body)], EmptyObject, answer).value,
          clock |-> IF insertOk THEN now + 1 ELSE now,
          resp |-> IF BrainWrite(st, QuillMemory(body.type), now, insertOk).raised
                   THEN [op |-> "quill", status |-> "error", code |-> 500, type |-> "json"]
                   ELSE [op |-> "quill", status |-> "complete", code |-> 200, type |-> "json",
                         draftPassed |-> DraftPassed(DispatchAgent(<<>>, "DRAFT",
                                            [content |-> QuillContent(body)], EmptyObject, answer).value),
                         examplesFound |-> Min(5, Cardinality(Matches(st, "template example")))]]

\* the job urls of the requests are idealist's, which is the source tagged
JobMemory ==
    [content |-> "JOB FOUND", memory_type |-> "system", importance |-> 7,
     tags |-> {"job", "hunter", "action_needed", "idealist"}]

\* the serve handler of HUNTER: for parse_url with a jobUrl, brainWrite of the
\* job, dispatchAgent('QUILL', { type: 'cover_letter', context }, {}) whose
\* result is dropped, and the result; else brainSearch and the result
HunterServe(st, now, body, searchOk, insertOk, answer) ==
    IF ~body.parses
    THEN [store |-> st, calls |-> <<>>, got |-> NullRow, clock |-> now,
          resp |-> [op |-> "hunter", status |-> "error", code |-> 500, type |-> "json"]]
    ELSE IF body.action = "parse_url" /\ body.jobUrl # ""
    THEN IF BrainWrite(st, JobMemory, now, insertOk).raised
         THEN [store |-> st, calls |-> <<>>, got |-> NullRow, clock |-> now,
               resp |-> [op |-> "hunter", status |-> "error", code |-> 500, type |-> "json"]]
         ELSE [store |-> BrainWrite(st, JobMemory, now, insertOk).store,
               calls |-> DispatchAgent(<<>>, "QUILL", [type |-> "cover_letter", context |-> body.jobUrl],
                                       EmptyObject, answer).calls,
               got |-> DispatchAgent(<<>>, "QUILL", [type |-> "cover_letter", context |-> body.jobUrl],
                                     EmptyObject, answer).value,
               clock |-> now + 1,
               resp |-> IF DispatchAgent(<<>>, "QUILL", [type |-> "cover_letter", context |-> body.jobUrl],
                                         EmptyObject, answer).raised
                        THEN [op |-> "hunter", status |-> "error", code |-> 500, type |-> "json"]
                        ELSE [op |-> "hunter", status |-> "complete", code |-> 200, type |-> "json"]]
    ELSE [store |-> st, calls |-> <<>>, got |-> NullRow, clock |-> now,
          resp |-> IF searchOk
                   THEN [op |-> "hunter", status |-> "complete", code |-> 200, type |-> "json"]
                   ELSE [op |-> "hunter", status |-> "error", code |-> 500, type |-> "json"]]

VoiceMemory ==
    [content |-> "VARA SPOKE", memory_type |-> "system", importance |-> 3,
     tags |-> {"vara", "voice", "elevenlabs"}]

\* the serve handler of VARA: a body that does not parse lands in the catch
\* block; no text is answered { status: 'error' } with HTTP 400; else
\* textToSpeech (throws on a failed call), logTrace, brainWrite, and the
\* result: JSON if returnFormat is 'base64', else the audio itself
VaraServe(st, now, body, speechOk, traceOk, insertOk) ==
    IF ~body.parses
    THEN [store |-> st, clock |-> now,
          resp |-> [op |-> "vara", status |-> "error", code |-> 500, type |-> "json"]]
    ELSE IF body.text = ""
    THEN [store |-> st, clock |-> now,
          resp |-> [op |-> "vara", status |-> "error", code |-> 400, type |-> "json"]]
    ELSE IF ~speechOk
    THEN [store |-> st, clock |-> now,
          resp |-> [op |-> "vara", status |-> "error", code |-> 500, type |-> "json"]]
    ELSE [store |-> BrainWrite(LogTrace(st, now, traceOk).store, VoiceMemory,
                               IF traceOk THEN now + 1 ELSE now, insertOk).store,
          clock |-> now + (IF traceOk THEN 1 ELSE 0) + (IF insertOk THEN 1 ELSE 0),
          resp |-> IF BrainWrite(LogTrace(st, now, traceOk).store, VoiceMemory,
                                 IF traceOk THEN now + 1 ELSE now, insertOk).raised
                   THEN [op |-> "vara", status |-> "error", code |-> 500, type |-> "json"]
                   ELSE [op |-> "vara", status |-> "complete", code |-> 200,
                         type |-> IF body.returnFormat = "base64" THEN "json" ELSE "audio"]]

(* ------------------------------ state ---------------------------------- *)

Cycles == {"timer", "manual"}

\* a sync_all invocation: its position, its locals (agentCount, traces) and
\* what happened to it: agentsOk/tracesOk the outcome of its reads, agentsAt/
\* tracesAt the length of the store when it read, ownReject whether its own
\* brainWrite was rejected, cacheApplied whether any of its cache requests was
\* executed, traceFails its failed trace writes, lost those of them that came
\* before it read the traces, sets the keys it called upstashSet for
IdleCycle ==
    [pc |-> "idle", agentCount |-> 0, traces |-> <<>>, agentsOk |-> FALSE, tracesOk |-> FALSE,
     agentsAt |-> 0, tracesAt |-> 0, ownReject |-> FALSE, cacheApplied |-> FALSE,
     traceFails |-> 0, lost |-> 0, sets |-> <<>>]

\* no agent handler has run yet
IdleHandler == [agent |-> "none", pc |-> "idle"]

\* a restore invocation: got is what upstashGet returned per key, seen the
\* cache entry of the key when it was read, readOk whether that request was answered
IdleRestore ==
    [pc |-> "idle", got |-> [k \in CacheKeys |-> NullRow], seen |-> [k \in CacheKeys |-> Absent],
     readOk |-> [k \in CacheKeys |-> FALSE]]

\* what callers hand to brainWrite: the importance is whatever number they pass
Memory(content, importance) ==
    [content |-> content, memory_type |-> "system", importance |-> importance, tags |-> {}]

MemoryInputs == {Memory("job", 3), Memory("job", 7), Memory("job", 11), Memory("misc", 0)}

BackfillMemoryInputs == {Memory("job", 7)}

Queries == {"job"}

SearchLimits == {1, 10}

\* the outcomes of an insert: the table takes it or rejects it
InsertOutcomes(st) == IF Len(st) < MaxStore THEN BOOLEAN ELSE {FALSE}

Init ==
    /\ store = <<>>
    /\ clock = 1
    /\ resp = [op |-> "none"]
    /\ bf = IdleBackfill
    /\ cache = [k \in CacheKeys |-> Absent]
    /\ configured = TRUE
    /\ cyc = [c \in Cycles |-> IdleCycle]
    /\ rst = IdleRestore
    /\ setLog = [k \in CacheKeys |-> <<>>]
    /\ hnd = IdleHandler
    /\ chan = <<>>
    /\ calls = <<>>

syncVars == <<cache, configured, cyc, rst, setLog>>

agentVars == <<hnd, chan, calls>>

(* ---------------------- MemoryStore handler actions -------------------- *)

\* a handler calls brainWrite(client, memory); it posts nothing to the
\* notification service
Write(memory, insertOk) ==
    /\ store' = BrainWrite(store, memory, clock, insertOk).store
    /\ clock' = IF insertOk THEN clock + 1 ELSE clock
    /\ resp' = [op |-> "write", rejected |-> ~insertOk,
                raised |-> BrainWrite(store, memory, clock, insertOk).raised,
                data |-> BrainWrite(store, memory, clock, insertOk).data]
    /\ hnd' = IdleHandler
    /\ chan' = <<>>
    /\ UNCHANGED <<bf, syncVars, calls>>

\* a handler calls brainSearch(client, query, limit); a query error is thrown
Search(query, limit, queryOk) ==
    /\ \/ /\ queryOk
          /\ \E r \in BrainSearch(store, query, limit) :
                resp' = [op |-> "search", status |-> "complete", code |-> 200, results |-> r]
       \/ /\ ~queryOk
          /\ resp' = [op |-> "search", status |-> "error", code |-> 500]
    /\ hnd' = IdleHandler
    /\ chan' = <<>>
    /\ UNCHANGED <<store, clock, bf, syncVars, calls>>

\* handleBackfill up to the loop: the select; if (error) throw error
BackfillStart(batchSize, selectOk) ==
    /\ bf.pc \in {"idle", "done", "error"}
    /\ \/ /\ selectOk
          /\ \E batch \in BackfillBatches(store, batchSize) :
                bf' = [IdleBackfill EXCEPT !.pc = "loop", !.batch = batch]
          /\ UNCHANGED resp
       \/ /\ ~selectOk
          /\ bf' = [IdleBackfill EXCEPT !.pc = "error"]
          /\ resp' = [op |-> "backfill", status |-> "error", code |-> 500]
    /\ UNCHANGED <<store, clock, syncVars>>
    /\ UNCHANGED agentVars

\* one iteration of the loop over the selected rows
BackfillStep(embedOk, updateOk) ==
    /\ bf.pc = "loop"
    /\ bf.i <= Len(bf.batch)
    /\ bf' = BackfillIteration(bf, store, embedOk, updateOk).bf
    /\ store' = BackfillIteration(bf, store, embedOk, updateOk).store
    /\ resp' = IF BackfillIteration(bf, store, embedOk, updateOk).bf.pc = "error"
               THEN [op |-> "backfill", status |-> "error", code |-> 500]
               ELSE resp
    /\ UNCHANGED <<clock, syncVars>>
    /\ UNCHANGED agentVars

\* after the loop: logTrace, then the result { processed, total }
BackfillEnd(traceOk) ==
    /\ bf.pc = "loop"
    /\ bf.i > Len(bf.batch)
    /\ store' = LogTrace(store, clock, traceOk).store
    /\ clock' = IF traceOk THEN clock + 1 ELSE clock
    /\ IF LogTrace(store, clock, traceOk).raised
       THEN /\ bf' = [bf EXCEPT !.pc = "error"]
            /\ resp' = [op |-> "backfill", status |-> "error", code |-> 500]
       ELSE /\ bf' = [bf EXCEPT !.pc = "done", !.total = Len(bf.batch)]
            /\ resp' = [op |-> "backfill", status |-> "complete", code |-> 200,
                        processed |-> bf.processed, total |-> Len(bf.batch)]
    /\ UNCHANGED syncVars
    /\ UNCHANGED agentVars

\* one SHADOW audit cycle; hnd keeps the trust score the audit computed
Shadow(pass, brain, insertOk, outcome) ==
    /\ store' = ShadowServe(store, clock, pass, brain, insertOk, outcome).store
    /\ clock' = IF insertOk THEN clock + 1 ELSE clock
    /\ resp' = ShadowServe(store, clock, pass, brain, insertOk, outcome).resp
    /\ chan' = ShadowServe(store, clock, pass, brain, insertOk, outcome).chan
    /\ hnd' = [agent |-> "SHADOW",
               pc |-> IF ShadowServe(store, clock, pass, brain, insertOk, outcome).resp.code = 200
                      THEN "done" ELSE "error",
               trustScore |-> RunAudit(pass, brain).trustScore]
    /\ UNCHANGED <<bf, syncVars, calls>>

Next ==
    \/ \E m \in MemoryInputs, ok \in InsertOutcomes(store) : Write(m, ok)
    \/ \E q \in Queries, l \in SearchLimits, ok \in BOOLEAN : Search(q, l, ok)
    \/ \E pass \in [EndpointChecks -> BOOLEAN], b \in BrainReadOutcomes, ok \in InsertOutcomes(store),
          o \in {"ok", "throws"} :
          Shadow(pass, b, ok, o)

Spec == Init /\ [][Next]_vars

BackfillNext ==
    \/ \E m \in BackfillMemoryInputs, ok \in InsertOutcomes(store) : Write(m, ok)
    \/ \E n \in 1..MaxBatch, ok \in BOOLEAN : BackfillStart(n, ok)
    \/ \E e \in BOOLEAN, u \in BOOLEAN : BackfillStep(e, u)
    \/ \E ok \in InsertOutcomes(store) : BackfillEnd(ok)

BackfillSpec == Init /\ [][BackfillNext]_vars

(* ----------------------------- SYNC actions ----------------------------- *)

AgentMemory ==
    [content |-> "AGENT", memory_type |-> "aba_agents", importance |-> 5, tags |-> {}]

\* a store holding n agent-registry records
AgentStore(n) == [i \in 1..n |-> InsertRow(AgentMemory, i, i)]

SyncInit ==
    /\ \E n \in 0..MaxAgents : store = AgentStore(n) /\ clock = n + 1
    /\ resp = [op |-> "none"]
    /\ bf = IdleBackfill
    /\ cache = [k \in CacheKeys |-> Absent]
    /\ configured \in BOOLEAN
    /\ cyc = [c \in Cycles |-> IdleCycle]
    /\ rst = IdleRestore
    /\ setLog = [k \in CacheKeys |-> <<>>]
    /\ hnd = IdleHandler
    /\ chan = <<>>
    /\ calls = <<>>

\* the value a cycle hands to upstashSet at its position
ValueOf(c) ==
    IF cyc[c].pc = "agents_set" THEN AgentsState(c, cyc[c].agentCount)
    ELSE IF cyc[c].pc = "traces_set" THEN TracesCacheValue(c, cyc[c].traces, cyc[c].tracesOk)
    ELSE AllState(c, cyc[c].agentCount, Len(cyc[c].traces), configured)

\* the timer or a manual call starts syncAll
Trigger(c) ==
    /\ cyc[c].pc = "idle"
    /\ cyc' = [cyc EXCEPT ![c].pc = SyncAllOrder[1]]
    /\ UNCHANGED <<store, clock, resp, bf, cache, configured, rst, setLog>>
    /\ UNCHANGED agentVars

\* syncAgents: the query for the agent records
SyncAgentsRead(c, readOk) ==
    /\ cyc[c].pc = "agents_read"
    /\ cyc' = [cyc EXCEPT ![c].pc = After("agents_read"),
                          ![c].agentCount = AgentRecords(store, readOk),
                          ![c].agentsOk = readOk,
                          ![c].agentsAt = Len(store)]
    /\ UNCHANGED <<store, clock, resp, bf, cache, configured, rst, setLog>>
    /\ UNCHANGED agentVars

\* syncTraces answering from the cached traces when the key holds a value
SyncTracesReadCacheFirst(c, readOk) ==
    /\ cyc[c].pc = "traces_read"
    /\ cyc' = [cyc EXCEPT ![c].pc = After("traces_read"),
                          ![c].traces = IF cache[TracesKey].present /\ "traces" \in DOMAIN cache[TracesKey].json
                                        THEN cache[TracesKey].json.traces
                                        ELSE TraceRecords(store, readOk),
                          ![c].tracesOk = readOk,
                          ![c].tracesAt = Len(store),
                          ![c].lost = cyc[c].traceFails]
    /\ UNCHANGED <<store, clock, resp, bf, cache, configured, rst, setLog>>
    /\ UNCHANGED agentVars

\* syncTraces: the query for the recent traces
SyncTracesRead(c, readOk) ==
    /\ cyc[c].pc = "traces_read"
    /\ cyc' = [cyc EXCEPT ![c].pc = After("traces_read"),
                          ![c].traces = TraceRecords(store, readOk),
                          ![c].tracesOk = readOk,
                          ![c].tracesAt = Len(store),
                          ![c].lost = cyc[c].traceFails]
    /\ UNCHANGED <<store, clock, resp, bf, cache, configured, rst, setLog>>
    /\ UNCHANGED agentVars

\* upstashSet's SET request (or its early return when not configured); an
\* exception leaving upstashSet would end the handler in its catch block
CacheSet(c, outcome) ==
    /\ cyc[c].pc \in {"agents_set", "traces_set", "state_set"}
    /\ cache' = UpstashSetRequest(cache, KeyOf(cyc[c].pc), ValueOf(c), configured, outcome).cache
    /\ setLog' = IF UpstashSetRequest(cache, KeyOf(cyc[c].pc), ValueOf(c), configured, outcome).applied
                 THEN [setLog EXCEPT ![KeyOf(cyc[c].pc)] = Append(@, ValueOf(c))]
                 ELSE setLog
    /\ cyc' = [cyc EXCEPT
          ![c].pc = IF UpstashSetRequest(cache, KeyOf(cyc[c].pc), ValueOf(c), configured, outcome).raised
                    THEN "error"
                    ELSE IF UpstashSetRequest(cache, KeyOf(cyc[c].pc), ValueOf(c), configured, outcome).next = "expire"
                    THEN After(cyc[c].pc)
                    ELSE After(After(cyc[c].pc)),
          ![c].cacheApplied = @ \/ UpstashSetRequest(cache, KeyOf(cyc[c].pc), ValueOf(c), configured, outcome).applied,
          ![c].sets = Append(@, KeyOf(cyc[c].pc))]
    /\ UNCHANGED <<store, clock, resp, bf, configured, rst>>
    /\ UNCHANGED agentVars

\* upstashSet's EXPIRE request
CacheExpire(c, outcome) ==
    /\ cyc[c].pc \in {"agents_expire", "traces_expire", "state_expire"}
    /\ cache' = UpstashExpireRequest(cache, KeyOf(cyc[c].pc), TTLOf(cyc[c].pc), outcome).cache
    /\ cyc' = [cyc EXCEPT
          ![c].pc = IF UpstashExpireRequest(cache, KeyOf(cyc[c].pc), TTLOf(cyc[c].pc), outcome).raised
                    THEN "error" ELSE After(cyc[c].pc),
          ![c].cacheApplied = @ \/ outcome = "ok"]
    /\ UNCHANGED <<store, clock, resp, bf, configured, rst, setLog>>
    /\ UNCHANGED agentVars

\* syncAgents: brainWrite of the sync record; its exception ends the handler
\* in the catch block (status 'error', HTTP 500)
SyncAgentsWrite(c, insertOk) ==
    /\ cyc[c].pc = "agents_write"
    /\ store' = BrainWrite(store, SyncMemory, clock, insertOk).store
    /\ clock' = IF insertOk THEN clock + 1 ELSE clock
    /\ cyc' = [cyc EXCEPT
          ![c].pc = IF BrainWrite(store, SyncMemory, clock, insertOk).raised
                    THEN "error" ELSE After("agents_write"),
          ![c].ownReject = ~insertOk]
    /\ UNCHANGED <<resp, bf, cache, configured, rst, setLog>>
    /\ UNCHANGED agentVars

\* the logTrace that ends syncAgents, syncTraces and syncAll; after the last
\* one the handler answers status 'complete'
CycleLogTrace(c, insertOk) ==
    /\ cyc[c].pc \in {"agents_trace", "traces_trace", "state_trace"}
    /\ store' = LogTrace(store, clock, insertOk).store
    /\ clock' = IF insertOk THEN clock + 1 ELSE clock
    /\ cyc' = [cyc EXCEPT
          ![c].pc = IF LogTrace(store, clock, insertOk).raised THEN "error" ELSE After(cyc[c].pc),
          ![c].traceFails = IF insertOk THEN @ ELSE @ + 1]
    /\ UNCHANGED <<resp, bf, cache, configured, rst, setLog>>
    /\ UNCHANGED agentVars

RestoreOrder == <<"get_state", "get_agents", "get_traces", "trace", "done">>

RestoreAfter(pc) == RestoreOrder[(CHOOSE i \in DOMAIN RestoreOrder : RestoreOrder[i] = pc) + 1]

RestoreKey(pc) ==
    IF pc = "get_state" THEN StateKey ELSE IF pc = "get_agents" THEN AgentsKey ELSE TracesKey

\* a restore request arrives
RestoreStart ==
    /\ rst.pc = "idle"
    /\ rst' = [rst EXCEPT !.pc = RestoreOrder[1]]
    /\ UNCHANGED <<store, clock, resp, bf, cache, configured, cyc, setLog>>
    /\ UNCHANGED agentVars

\* restore: one of its three upstashGet calls
RestoreGet(outcome) ==
    /\ rst.pc \in {"get_state", "get_agents", "get_traces"}
    /\ rst' = [rst EXCEPT
          !.pc = IF UpstashGet(cache, RestoreKey(rst.pc), configured, outcome).raised
                 THEN "error" ELSE RestoreAfter(rst.pc),
          !.got[RestoreKey(rst.pc)] = UpstashGet(cache, RestoreKey(rst.pc), configured, outcome).value,
          !.seen[RestoreKey(rst.pc)] = cache[RestoreKey(rst.pc)],
          !.readOk[RestoreKey(rst.pc)] = configured /\ outcome = "ok"]
    /\ UNCHANGED <<store, clock, resp, bf, cache, configured, cyc, setLog>>
    /\ UNCHANGED agentVars

\* restore: logTrace, then return { state, agents, traces }
RestoreLogTrace(insertOk) ==
    /\ rst.pc = "trace"
    /\ store' = LogTrace(store, clock, insertOk).store
    /\ clock' = IF insertOk THEN clock + 1 ELSE clock
    /\ rst' = [rst EXCEPT !.pc = IF LogTrace(store, clock, insertOk).raised
                                 THEN "error" ELSE RestoreAfter("trace")]
    /\ UNCHANGED <<resp, bf, cache, configured, cyc, setLog>>
    /\ UNCHANGED agentVars

\* the cache drops a key whose expiry has passed
KeyExpires(k) ==
    /\ cache[k].present
    /\ cache[k].ttl > 0
    /\ cache' = [cache EXCEPT ![k] = Absent]
    /\ UNCHANGED <<store, clock, resp, bf, configured, cyc, rst, setLog>>
    /\ UNCHANGED agentVars

\* SYNC with one cycle at a time (the timer's), restore and key expiry, under
\* every fault of the store and of the cache
SyncNext ==
    \/ Trigger("timer")
    \/ \E ok \in BOOLEAN : SyncAgentsRead("timer", ok)
    \/ \E ok \in BOOLEAN : SyncTracesRead("timer", ok)
    \/ \E o \in FetchOutcomes : CacheSet("timer", o)
    \/ \E o \in FetchOutcomes : CacheExpire("timer", o)
    \/ \E ok \in BOOLEAN : SyncAgentsWrite("timer", ok)
    \/ \E ok \in BOOLEAN : CycleLogTrace("timer", ok)
    \/ RestoreStart
    \/ \E o \in FetchOutcomes : RestoreGet(o)
    \/ \E ok \in BOOLEAN : RestoreLogTrace(ok)
    \/ \E k \in CacheKeys : KeyExpires(k)

SyncSpec == SyncInit /\ [][SyncNext]_vars

ConcurrentInit ==
    /\ store = AgentStore(MaxAgents)
    /\ clock = MaxAgents + 1
    /\ resp = [op |-> "none"]
    /\ bf = IdleBackfill
    /\ cache = [k \in CacheKeys |-> Absent]
    /\ configured = TRUE
    /\ cyc = [c \in Cycles |-> IdleCycle]
    /\ rst = IdleRestore
    /\ setLog = [k \in CacheKeys |-> <<>>]
    /\ hnd = IdleHandler
    /\ chan = <<>>
    /\ calls = <<>>

\* the timer's and a manual sync cycle run concurrently, every await of one
\* interleaving with the other's, under every fault of the cache and with the
\* store rejecting the sync record or not
ConcurrentNext ==
    \/ \E c \in Cycles : Trigger(c)
    \/ \E c \in Cycles : SyncAgentsRead(c, TRUE)
    \/ \E c \in Cycles : SyncTracesRead(c, TRUE)
    \/ \E c \in Cycles, o \in FetchOutcomes : CacheSet(c, o)
    \/ \E c \in Cycles, o \in FetchOutcomes : CacheExpire(c, o)
    \/ \E c \in Cycles, ok \in BOOLEAN : SyncAgentsWrite(c, ok)
    \/ \E c \in Cycles : CycleLogTrace(c, TRUE)

ConcurrentSpec == ConcurrentInit /\ [][ConcurrentNext]_vars

(* ------------------ escalation and notification actions ---------------- *)

\* no handler is between two of its steps
Quiet == hnd.pc \in {"idle", "done", "error", "skipped"}

NoResponse == [op |-> "none"]

\* the contents LUKE is sent: their length and the matches of the patterns in
\* them, in pattern order
LukeContents ==
    {[len |-> 0, matches |-> <<>>],
     [len |-> 9, matches |-> <<Match("call mom", 3, "call", 7, FALSE, FALSE)>>],
     [len |-> 40, matches |-> <<>>],
     [len |-> 40, matches |-> <<Match("water the plants", 16, "reminder", 7, FALSE, FALSE)>>],
     [len |-> 60, matches |-> <<Match("see the dentist tomorrow", 24, "meeting", 8, FALSE, TRUE)>>],
     [len |-> 90, matches |-> <<Match("file the report today", 21, "task", 6, TRUE, FALSE),
                               Match("the grant proposal", 18, "deadline", 9, FALSE, FALSE)>>],
     [len |-> 90, matches |-> <<Match("the grant proposal", 18, "task", 6, FALSE, FALSE),
                               Match("the grant proposal", 18, "deadline", 9, FALSE, FALSE)>>],
     [len |-> 300, matches |-> <<Match("buy milk", 8, "purchase", 5, FALSE, FALSE),
                                Match("a long account of the outage", 190, "urgent", 10, TRUE, FALSE)>>]}

\* the inboxes IMAN fetches
ImanInboxes ==
    {<<>>,
     <<Email(FALSE, FALSE, FALSE, 15, 20)>>,
     <<Email(TRUE, FALSE, FALSE, 15, 20), Email(FALSE, TRUE, FALSE, 18, 30)>>,
     <<Email(TRUE, TRUE, FALSE, 15, 20), Email(TRUE, FALSE, TRUE, 20, 150)>>,
     <<Email(FALSE, FALSE, TRUE, 15, 20), Email(FALSE, TRUE, FALSE, 18, 30)>>}

\* the calendars RADAR fetches, ordered by start time
RadarCalendars ==
    {<<>>,
     <<Event(12, 120, 180)>>,
     <<Event(12, 10, 40), Event(30, 30, 60)>>,
     <<Event(2000, 5, 65), Event(25, 14, 44)>>}

\* LUKE receives a request: a body that does not parse lands in the catch
\* block; content shorter than 10 characters is answered 'skipped'
LukeStart(content, bodyOk) ==
    /\ Quiet
    /\ chan' = <<>>
    /\ calls' = <<>>
    /\ IF ~bodyOk
       THEN /\ hnd' = [agent |-> "LUKE", pc |-> "error", items |-> <<>>, i |-> 1, missing |-> FALSE]
            /\ resp' = [op |-> "luke", status |-> "error", code |-> 500]
       ELSE IF content.len < MinContentLength
       THEN /\ hnd' = [agent |-> "LUKE", pc |-> "skipped", items |-> <<>>, i |-> 1, missing |-> TRUE]
            /\ resp' = [op |-> "luke", status |-> "skipped", code |-> 200]
       ELSE /\ hnd' = [agent |-> "LUKE", pc |-> "loop", items |-> ExtractActionItems(content.matches),
                       i |-> 1, missing |-> FALSE]
            /\ resp' = NoResponse
    /\ UNCHANGED <<store, clock, bf, syncVars>>

\* LUKE: one iteration of the loop over the items
LukeItem(insertOk, outcome) ==
    /\ hnd.agent = "LUKE"
    /\ hnd.pc = "loop"
    /\ hnd.i <= Len(hnd.items)
    /\ hnd' = LukeIteration(hnd, store, chan, clock, insertOk, outcome).hnd
    /\ store' = LukeIteration(hnd, store, chan, clock, insertOk, outcome).store
    /\ chan' = LukeIteration(hnd, store, chan, clock, insertOk, outcome).chan
    /\ clock' = IF insertOk THEN clock + 1 ELSE clock
    /\ resp' = IF LukeIteration(hnd, store, chan, clock, insertOk, outcome).hnd.pc = "error"
               THEN [op |-> "luke", status |-> "error", code |-> 500]
               ELSE resp
    /\ UNCHANGED <<bf, syncVars, calls>>

\* LUKE after the loop: logTrace, then the result
LukeEnd(traceOk) ==
    /\ hnd.agent = "LUKE"
    /\ hnd.pc = "loop"
    /\ hnd.i > Len(hnd.items)
    /\ store' = LogTrace(store, clock, traceOk).store
    /\ clock' = IF traceOk THEN clock + 1 ELSE clock
    /\ hnd' = [hnd EXCEPT !.pc = "done"]
    /\ resp' = [op |-> "luke", status |-> "complete", code |-> 200,
                itemsExtracted |-> Len(hnd.items),
                urgentItems |-> Cardinality({k \in DOMAIN hnd.items : hnd.items[k].urgency >= EscalateUrgency})]
    /\ UNCHANGED <<bf, syncVars, chan, calls>>

\* IMAN receives a fetch request: fetchInbox (an exception lands in the catch
\* block), categorize, pick the critical emails and the job alerts
ImanStart(emails, fetchOk) ==
    /\ Quiet
    /\ chan' = <<>>
    /\ IF ~fetchOk
       THEN /\ hnd' = [agent |-> "IMAN", pc |-> "error", items |-> <<>>, i |-> 1, jobs |-> <<>>, j |-> 1]
            /\ resp' = [op |-> "iman", status |-> "error", code |-> 500]
       ELSE /\ hnd' = [agent |-> "IMAN",
                       pc |-> IF CriticalEmails(emails) = <<>> THEN "store" ELSE "escalate",
                       items |-> CriticalEmails(emails), i |-> 1,
                       jobs |-> JobAlerts(emails), j |-> 1]
            /\ resp' = NoResponse
    /\ UNCHANGED <<store, clock, bf, syncVars, calls>>

\* IMAN: the escalation of one critical email
ImanEscalate(outcome) ==
    /\ hnd.agent = "IMAN"
    /\ hnd.pc = "escalate"
    /\ hnd' = ImanEscalation(hnd, chan, outcome).hnd
    /\ chan' = ImanEscalation(hnd, chan, outcome).chan
    /\ resp' = IF ImanEscalation(hnd, chan, outcome).hnd.pc = "error"
               THEN [op |-> "iman", status |-> "error", code |-> 500]
               ELSE resp
    /\ UNCHANGED <<store, clock, bf, syncVars, calls>>

\* IMAN: brainWrite of one job alert
ImanStore(insertOk) ==
    /\ hnd.agent = "IMAN"
    /\ hnd.pc = "store"
    /\ hnd.j <= Len(hnd.jobs)
    /\ store' = BrainWrite(store, JobAlertMemory, clock, insertOk).store
    /\ clock' = IF insertOk THEN clock + 1 ELSE clock
    /\ hnd' = [hnd EXCEPT !.pc = IF BrainWrite(store, JobAlertMemory, clock, insertOk).raised
                                 THEN "error" ELSE "store",
                          !.j = hnd.j + 1]
    /\ resp' = IF BrainWrite(store, JobAlertMemory, clock, insertOk).raised
               THEN [op |-> "iman", status |-> "error", code |-> 500]
               ELSE resp
    /\ UNCHANGED <<bf, syncVars, chan, calls>>

\* IMAN after its loops: logTrace, then the result
ImanEnd(traceOk) ==
    /\ hnd.agent = "IMAN"
    /\ hnd.pc = "store"
    /\ hnd.j > Len(hnd.jobs)
    /\ store' = LogTrace(store, clock, traceOk).store
    /\ clock' = IF traceOk THEN clock + 1 ELSE clock
    /\ hnd' = [hnd EXCEPT !.pc = "done"]
    /\ resp' = [op |-> "iman", status |-> "complete", code |-> 200,
                critical |-> Len(hnd.items), jobAlerts |-> Len(hnd.jobs)]
    /\ UNCHANGED <<bf, syncVars, chan, calls>>

\* IMAN's send request: sendEmail (not caught), logTrace, the result
ImanSend(sendOk, traceOk) ==
    /\ Quiet
    /\ chan' = <<>>
    /\ hnd' = [agent |-> "IMAN", pc |-> IF sendOk THEN "done" ELSE "error",
               items |-> <<>>, i |-> 1, jobs |-> <<>>, j |-> 1]
    /\ store' = IF sendOk THEN LogTrace(store, clock, traceOk).store ELSE store
    /\ clock' = IF sendOk /\ traceOk THEN clock + 1 ELSE clock
    /\ resp' = IF sendOk
               THEN [op |-> "iman", status |-> "complete", code |-> 200, critical |-> 0, jobAlerts |-> 0]
               ELSE [op |-> "iman", status |-> "error", code |-> 500]
    /\ UNCHANGED <<bf, syncVars, calls>>

\* RADAR receives a scan request: getAccessToken and getUpcomingEvents (an
\* exception of either lands in the catch block), the conflicts, the meetings
\* that start within 15 minutes
RadarStart(events, fetchOk) ==
    /\ Quiet
    /\ chan' = <<>>
    /\ IF ~fetchOk
       THEN /\ hnd' = [agent |-> "RADAR", pc |-> "error", items |-> <<>>, i |-> 1,
                       events |-> 0, conflicts |-> 0]
            /\ resp' = [op |-> "radar", status |-> "error", code |-> 500]
       ELSE /\ hnd' = [agent |-> "RADAR",
                       pc |-> IF CheckUpcomingMeetings(events) = <<>> THEN "store" ELSE "remind",
                       items |-> CheckUpcomingMeetings(events), i |-> 1,
                       events |-> Len(events), conflicts |-> Cardinality(CheckForConflicts(events))]
            /\ resp' = NoResponse
    /\ UNCHANGED <<store, clock, bf, syncVars, calls>>

\* RADAR: the reminder of one upcoming meeting
RadarRemind(outcome) ==
    /\ hnd.agent = "RADAR"
    /\ hnd.pc = "remind"
    /\ hnd' = RadarReminder(hnd, chan, outcome).hnd
    /\ chan' = RadarReminder(hnd, chan, outcome).chan
    /\ resp' = IF RadarReminder(hnd, chan, outcome).hnd.pc = "error"
               THEN [op |-> "radar", status |-> "error", code |-> 500]
               ELSE resp
    /\ UNCHANGED <<store, clock, bf, syncVars, calls>>

\* RADAR after the reminders: brainWrite of the scan if there are events (its
\* exception lands in the catch block), logTrace, the result
RadarEnd(insertOk, traceOk) ==
    /\ hnd.agent = "RADAR"
    /\ hnd.pc = "store"
    /\ traceOk => Len(store) + (IF hnd.events > 0 /\ insertOk THEN 1 ELSE 0) < MaxStore
    /\ IF hnd.events > 0 /\ BrainWrite(store, RadarMemory, clock, insertOk).raised
       THEN /\ store' = store
            /\ clock' = clock
            /\ hnd' = [hnd EXCEPT !.pc = "error"]
            /\ resp' = [op |-> "radar", status |-> "error", code |-> 500]
       ELSE /\ store' = LogTrace(IF hnd.events > 0
                                 THEN BrainWrite(store, RadarMemory, clock, insertOk).store
                                 ELSE store,
                                 clock + (IF hnd.events > 0 THEN 1 ELSE 0), traceOk).store
            /\ clock' = clock + (IF hnd.events > 0 THEN 1 ELSE 0) + (IF traceOk THEN 1 ELSE 0)
            /\ hnd' = [hnd EXCEPT !.pc = "done"]
            /\ resp' = [op |-> "radar", status |-> "complete", code |-> 200,
                        eventCount |-> hnd.events, conflictCount |-> hnd.conflicts,
                        upcomingCount |-> Len(hnd.items)]
    /\ UNCHANGED <<bf, syncVars, chan, calls>>

\* RADAR's create request: getAccessToken and createEvent (not caught),
\* logTrace, the result
RadarCreate(createOk, traceOk) ==
    /\ Quiet
    /\ chan' = <<>>
    /\ hnd' = [agent |-> "RADAR", pc |-> IF createOk THEN "done" ELSE "error",
               items |-> <<>>, i |-> 1, events |-> 0, conflicts |-> 0]
    /\ store' = IF createOk THEN LogTrace(store, clock, traceOk).store ELSE store
    /\ clock' = IF createOk /\ traceOk THEN clock + 1 ELSE clock
    /\ resp' = IF createOk
               THEN [op |-> "radar", status |-> "complete", code |-> 200,
                     eventCount |-> 0, conflictCount |-> 0, upcomingCount |-> 0]
               ELSE [op |-> "radar", status |-> "error", code |-> 500]
    /\ UNCHANGED <<bf, syncVars, calls>>

\* one DAWN briefing
Dawn(audience, actionItems, pendingItems, contentLen, insertOk, outcome, traceOk) ==
    /\ Quiet
    /\ traceOk => Len(store) + (IF insertOk THEN 1 ELSE 0) < MaxStore
    /\ store' = DawnServe(store, clock, audience,
                          BriefingLength(audience, actionItems, pendingItems, contentLen),
                          insertOk, outcome, traceOk).store
    /\ clock' = DawnServe(store, clock, audience,
                          BriefingLength(audience, actionItems, pendingItems, contentLen),
                          insertOk, outcome, traceOk).clock
    /\ chan' = DawnServe(store, clock, audience,
                         BriefingLength(audience, actionItems, pendingItems, contentLen),
                         insertOk, outcome, traceOk).chan
    /\ resp' = DawnServe(store, clock, audience,
                         BriefingLength(audience, actionItems, pendingItems, contentLen),
                         insertOk, outcome, traceOk).resp
    /\ hnd' = [agent |-> "DAWN",
               pc |-> IF DawnServe(store, clock, audience,
                                   BriefingLength(audience, actionItems, pendingItems, contentLen),
                                   insertOk, outcome, traceOk).resp.code = 200
                      THEN "done" ELSE "error"]
    /\ UNCHANGED <<bf, syncVars, calls>>

\* some caller invokes escalateToREACH(urgency, message, source)
Escalate(urgency, len, outcome) ==
    /\ Quiet
    /\ chan' = EscalateToREACH(<<>>, urgency, len, outcome).chan
    /\ hnd' = [agent |-> "caller",
               pc |-> IF EscalateToREACH(<<>>, urgency, len, outcome).raised THEN "error" ELSE "done",
               urgency |-> urgency]
    /\ resp' = NoResponse
    /\ UNCHANGED <<store, clock, bf, syncVars, calls>>

Urgencies == 1..10

MessageLengths == {40}

Audiences == {"brandon", "cj"}

\* LUKE, IMAN, RADAR and DAWN one request at a time, and direct calls of the
\* escalation function, under every fault of the store and of the
\* notification service
EscalationNext ==
    \/ \E c \in LukeContents, ok \in BOOLEAN : LukeStart(c, ok)
    \/ \E ok \in InsertOutcomes(store), o \in FetchOutcomes : LukeItem(ok, o)
    \/ \E ok \in InsertOutcomes(store) : LukeEnd(ok)
    \/ \E e \in ImanInboxes, ok \in BOOLEAN : ImanStart(e, ok)
    \/ \E o \in FetchOutcomes : ImanEscalate(o)
    \/ \E ok \in InsertOutcomes(store) : ImanStore(ok)
    \/ \E ok \in InsertOutcomes(store) : ImanEnd(ok)
    \/ \E s \in BOOLEAN, ok \in InsertOutcomes(store) : ImanSend(s, ok)
    \/ \E e \in RadarCalendars, ok \in BOOLEAN : RadarStart(e, ok)
    \/ \E o \in FetchOutcomes : RadarRemind(o)
    \/ \E ok \in InsertOutcomes(store), t \in BOOLEAN : RadarEnd(ok, t)
    \/ \E c \in BOOLEAN, ok \in InsertOutcomes(store) : RadarCreate(c, ok)
    \/ \E a \in Audiences, n \in {0, 10}, m \in {2}, l \in {400},
          ok \in InsertOutcomes(store), o \in FetchOutcomes, t \in BOOLEAN :
          Dawn(a, n, m, l, ok, o, t)
    \/ \E u \in Urgencies, l \in MessageLengths, o \in FetchOutcomes : Escalate(u, l, o)

EscalationSpec == Init /\ [][EscalationNext]_vars

(* ------------------------- dispatching handlers ------------------------- *)

\* the rows the dispatching handlers may add to the store in one behaviour
MaxDispatched == 2

\* the request bodies: parses says whether req.json() succeeds
HearBodies ==
    {[parses |-> FALSE, transcript |-> "", text |-> ""],
     [parses |-> TRUE, transcript |-> "", text |-> ""],
     [parses |-> TRUE, transcript |-> "we must call the bank today", text |-> ""],
     [parses |-> TRUE, transcript |-> "", text |-> "remind me to water the plants"]}

MarkBodies ==
    {[parses |-> FALSE, transcript |-> ""],
     [parses |-> TRUE, transcript |-> ""],
     [parses |-> TRUE, transcript |-> "we must call the bank today"]}

QuillBodies ==
    {[parses |-> FALSE, type |-> "", context |-> ""],
     [parses |-> TRUE, type |-> "cover_letter", context |-> "Job: https://idealist.org/1"],
     [parses |-> TRUE, type |-> "email", context |-> ""],
     [parses |-> TRUE, type |-> "", context |-> "a note"]}

HunterBodies ==
    {[parses |-> FALSE, action |-> "", jobUrl |-> ""],
     [parses |-> TRUE, action |-> "parse_url", jobUrl |-> "Job: https://idealist.org/1"],
     [parses |-> TRUE, action |-> "parse_url", jobUrl |-> ""],
     [parses |-> TRUE, action |-> "search", jobUrl |-> ""]}

VaraBodies ==
    {[parses |-> FALSE, text |-> "", returnFormat |-> ""],
     [parses |-> TRUE, text |-> "", returnFormat |-> ""],
     [parses |-> TRUE, text |-> "Good morning", returnFormat |-> ""],
     [parses |-> TRUE, text |-> "Good morning", returnFormat |-> "base64"]}

\* one HEAR request; hnd keeps what the handler was sent and what its dispatch
\* was answered and returned
Hear(body, insertOk, answer) ==
    /\ Quiet
    /\ store' = HearServe(store, clock, body, insertOk, answer).store
    /\ clock' = HearServe(store, clock, body, insertOk, answer).clock
    /\ calls' = HearServe(store, clock, body, insertOk, answer).calls
    /\ resp' = HearServe(store, clock, body, insertOk, answer).resp
    /\ chan' = <<>>
    /\ hnd' = [agent |-> "HEAR",
               pc |-> IF HearServe(store, clock, body, insertOk, answer).resp.status = "error"
                      THEN "error" ELSE "done",
               missing |-> body.parses /\ body.transcript = "" /\ body.text = "",
               answer |-> answer,
               got |-> HearServe(store, clock, body, insertOk, answer).got]
    /\ UNCHANGED <<bf, syncVars>>

\* one MARK request
Mark(body, insertOk, answer) ==
    /\ Quiet
    /\ store' = MarkServe(store, clock, body, insertOk, answer).store
    /\ clock' = MarkServe(store, clock, body, insertOk, answer).clock
    /\ calls' = MarkServe(store, clock, body, insertOk, answer).calls
    /\ resp' = MarkServe(store, clock, body, insertOk, answer).resp
    /\ chan' = <<>>
    /\ hnd' = [agent |-> "MARK",
               pc |-> IF MarkServe(store, clock, body, insertOk, answer).resp.status = "error"
                      THEN "error" ELSE "done",
               missing |-> body.parses /\ body.transcript = "",
               answer |-> answer,
               got |-> MarkServe(store, clock, body, insertOk, answer).got]
    /\ UNCHANGED <<bf, syncVars>>

\* one QUILL request
Quill(body, searchOk, insertOk, answer) ==
    /\ Quiet
    /\ store' = QuillServe(store, clock, body, searchOk, insertOk, answer).store
    /\ clock' = QuillServe(store, clock, body, searchOk, insertOk, answer).clock
    /\ calls' = QuillServe(store, clock, body, searchOk, insertOk, answer).calls
    /\ resp' = QuillServe(store, clock, body, searchOk, insertOk, answer).resp
    /\ chan' = <<>>
    /\ hnd' = [agent |-> "QUILL",
               pc |-> IF QuillServe(store, clock, body, searchOk, insertOk, answer).resp.status = "error"
                      THEN "error" ELSE "done",
               missing |-> FALSE,
               answer |-> answer,
               got |-> QuillServe(store, clock, body, searchOk, insertOk, answer).got]
    /\ UNCHANGED <<bf, syncVars>>

\* one HUNTER request
Hunter(body, searchOk, insertOk, answer) ==
    /\ Quiet
    /\ store' = HunterServe(store, clock, body, searchOk, insertOk, answer).store
    /\ clock' = HunterServe(store, clock, body, searchOk, insertOk, answer).clock
    /\ calls' = HunterServe(store, clock, body, searchOk, insertOk, answer).calls
    /\ resp' = HunterServe(store, clock, body, searchOk, insertOk, answer).resp
    /\ chan' = <<>>
    /\ hnd' = [agent |-> "HUNTER",
               pc |-> IF HunterServe(store, clock, body, searchOk, insertOk, answer).resp.status = "error"
                      THEN "error" ELSE "done",
               missing |-> FALSE,
               answer |-> answer,
               got |-> HunterServe(store, clock, body, searchOk, insertOk, answer).got]
    /\ UNCHANGED <<bf, syncVars>>

\* one VARA request
Vara(body, speechOk, traceOk, insertOk) ==
    /\ Quiet
    /\ (body.parses /\ body.text # "" /\ speechOk) =>
          Len(store) + (IF traceOk THEN 1 ELSE 0) + (IF insertOk THEN 1 ELSE 0) <= MaxDispatched
    /\ store' = VaraServe(store, clock, body, speechOk, traceOk, insertOk).store
    /\ clock' = VaraServe(store, clock, body, speechOk, traceOk, insertOk).clock
    /\ resp' = VaraServe(store, clock, body, speechOk, traceOk, insertOk).resp
    /\ chan' = <<>>
    /\ calls' = <<>>
    /\ hnd' = [agent |-> "VARA",
               pc |-> IF VaraServe(store, clock, body, speechOk, traceOk, insertOk).resp.status = "error"
                      THEN "error" ELSE "done",
               missing |-> body.parses /\ body.text = "",
               answer |-> SkippedAnswer, got |-> NullRow]
    /\ UNCHANGED <<bf, syncVars>>

DispatchInserts(st) == IF Len(st) < MaxDispatched THEN BOOLEAN ELSE {FALSE}

\* the contents LUKE finds nothing to do with: too short, or without an item
QuietContents == {c \in LukeContents : c.len < MinContentLength \/ c.matches = <<>>}

\* HEAR, MARK, QUILL, HUNTER, VARA and LUKE one request at a time, under every
\* answer of the dispatch target and every fault of the store
DispatchNext ==
    \/ \E b \in HearBodies, ok \in DispatchInserts(store), a \in TargetOutcomes : Hear(b, ok, a)
    \/ \E b \in MarkBodies, ok \in DispatchInserts(store), a \in TargetOutcomes : Mark(b, ok, a)
    \/ \E b \in QuillBodies, s \in BOOLEAN, ok \in DispatchInserts(store), a \in TargetOutcomes :
          Quill(b, s, ok, a)
    \/ \E b \in HunterBodies, s \in BOOLEAN, ok \in DispatchInserts(store), a \in TargetOutcomes :
          Hunter(b, s, ok, a)
    \/ \E b \in VaraBodies, s \in BOOLEAN, t \in BOOLEAN, ok \in BOOLEAN : Vara(b, s, t, ok)
    \/ \E c \in QuietContents, ok \in BOOLEAN : LukeStart(c, ok)
    \/ \E ok \in DispatchInserts(store) : LukeEnd(ok)

DispatchSpec == Init /\ [][DispatchNext]_vars

(* ======================= claims on the MemoryStore ====================== *)

\* C1: whatever importance the caller hands to brainWrite, the importance of
\* every stored record lies in [1,10].
C1_StoredImportanceClamped ==
    \A i \in DOMAIN store : store[i].importance \in 1..10

\* C2: the rows brainSearch returns are ordered by importance descending, and
\* rows of equal importance by created_at descending.
C2_SearchRankedWithTieBreak ==
    (resp.op = "search" /\ resp.status = "complete") =>
        \A i, j \in DOMAIN resp.results :
            i < j =>
                \/ store[resp.results[i]].importance > store[resp.results[j]].importance
                \/ /\ store[resp.results[i]].importance = store[resp.results[j]].importance
                   /\ store[resp.results[i]].created_at >= store[resp.results[j]].created_at

Failures(outcomes) == Cardinality({i \in DOMAIN outcomes : ~outcomes[i]})

\* C3: once a batch of n rows is selected the backfill raises nothing, attempts
\* every row of the batch whatever failed before it, and with k failed embedding
\* calls returns processed = n - k and total = n.
C3_BackfillCountsFailures ==
    /\ bf.pc = "error" => bf.batch = <<>>
    /\ bf.pc \in {"loop", "done"} =>
          /\ Len(bf.outcomes) = bf.i - 1
          /\ bf.processed = Len(bf.outcomes) - Failures(bf.outcomes)
    /\ bf.pc = "done" =>
          /\ Len(bf.outcomes) = Len(bf.batch)
          /\ bf.total = Len(bf.batch)
          /\ bf.processed = bf.total - Failures(bf.outcomes)
          /\ bf.processed <= bf.total

\* a batch whose first embedding call failed and whose second succeeded is done
C3_Witness ==
    /\ bf.pc = "done"
    /\ Len(bf.batch) >= 2
    /\ ~bf.outcomes[1]
    /\ bf.outcomes[2]
    /\ bf.processed = bf.total - 1

Frozen(row) ==
    [id |-> row.id, content |-> row.content, memory_type |-> row.memory_type,
     importance |-> row.importance, tags |-> row.tags, created_at |-> row.created_at]

\* C4: no step deletes a record or changes a field other than embedding of an
\* existing record, and only a backfill iteration changes an existing record
\* (the one it is processing).
C4_OnlyEmbeddingMutable ==
    [][/\ Len(store') >= Len(store)
       /\ \A i \in DOMAIN store :
             /\ Frozen(store'[i]) = Frozen(store[i])
             /\ store'[i] # store[i] =>
                   (bf.pc = "loop" /\ bf.i <= Len(bf.batch) /\ bf.batch[bf.i] = i /\ bf'.i = bf.i + 1)]_vars

\* the backfill has set the embedding of a record of a store of several records
C4_Witness ==
    /\ Len(store) >= 2
    /\ \E i \in DOMAIN store : store[i].embedding = "vec" /\ store[i].importance = 7

\* C5: a rejected insert makes brainWrite raise, return no record and leave the
\* store as it was; SHADOW, whose primary operation is that write, then answers
\* with status 'error' (HTTP 500), not 'complete'.
C5_RejectedWritePropagates ==
    [][(resp' # resp /\ resp'.op \in {"write", "shadow"} /\ resp'.rejected) =>
          /\ store' = store
          /\ resp'.op = "write" => (resp'.raised /\ resp'.data = NullRow)
          /\ resp'.op = "shadow" => (resp'.status = "error" /\ resp'.code = 500)]_vars

\* SHADOW answered an audit whose snapshot insert was rejected by a store that
\* had room for it
C5_Witness ==
    /\ resp.op = "shadow"
    /\ resp.rejected
    /\ resp.status = "error"
    /\ Len(store) >= 1

(* ============================ claims on SYNC =========================== *)

\* what the reads of a cycle found in the store: the records that were there
\* when it read (the store only grows, so they are a prefix of it)
AgentsInStore(c) ==
    IF cyc[c].agentsOk
    THEN Min(ReadLimit, Cardinality({i \in 1..cyc[c].agentsAt : store[i].memory_type = "aba_agents"}))
    ELSE 0

TracesInStore(c) ==
    IF cyc[c].tracesOk
    THEN Min(ReadLimit, Cardinality({i \in 1..cyc[c].tracesAt : "trace" \in store[i].tags}))
    ELSE 0

\* C6: a cycle none of whose cache requests was executed (every one failed, or
\* the cache is not configured) raises nothing of its own: it ends in error
\* only if the store rejected its sync record, and the agents and traces
\* summaries it returns are the ones read from the store, as for a cycle whose
\* cache requests were executed.
C6_CacheFailureHarmless ==
    \A c \in Cycles :
        /\ ~cyc[c].cacheApplied =>
              /\ cyc[c].pc = "error" => cyc[c].ownReject
              /\ cyc[c].pc = "done" =>
                    (cyc[c].agentCount = AgentsInStore(c) /\ Len(cyc[c].traces) = TracesInStore(c))
        /\ (cyc[c].cacheApplied /\ cyc[c].pc = "done") =>
              (cyc[c].agentCount = AgentsInStore(c) /\ Len(cyc[c].traces) = TracesInStore(c))

\* a cycle over a configured cache completed although every cache request failed
C6_Witness ==
    /\ configured
    /\ cyc["timer"].pc = "done"
    /\ ~cyc["timer"].cacheApplied
    /\ cyc["timer"].sets = <<AgentsKey, TracesKey, StateKey>>
    /\ cyc["timer"].agentCount >= 1
    /\ Len(cyc["timer"].traces) >= 1

\* C7 as stated: restore returns the cached value of every key that is in the
\* cache when it is read and null for every key that is not.
C7_RestoreReturnsPresent ==
    rst.pc = "done" =>
        \A k \in CacheKeys :
            rst.got[k] = IF rst.seen[k].present THEN rst.seen[k].json ELSE NullRow

\* C7 (amended): restore never raises; it returns the cached value of every key
\* that is in the cache and whose GET is answered, and null for every key that
\* is absent or whose GET fails.
C7_RestoreReturnsReadable ==
    /\ rst.pc # "error"
    /\ rst.pc = "done" =>
          \A k \in CacheKeys :
              rst.got[k] = IF rst.readOk[k] /\ rst.seen[k].present THEN rst.seen[k].json ELSE NullRow

\* restore returned from a partly filled cache: the agents summary, and null
\* for the aggregate that was not there
C7_Witness ==
    /\ rst.pc = "done"
    /\ rst.seen[AgentsKey].present
    /\ rst.got[AgentsKey] = rst.seen[AgentsKey].json
    /\ ~rst.seen[StateKey].present
    /\ rst.got[StateKey] = NullRow

Phase(pc) ==
    IF pc \in {"agents_read", "agents_set", "agents_expire", "agents_write", "agents_trace"}
    THEN "SYNCING_AGENTS"
    ELSE IF pc \in {"traces_read", "traces_set", "traces_expire", "traces_trace"}
    THEN "SYNCING_TRACES"
    ELSE IF pc \in {"state_set", "state_expire", "state_trace"}
    THEN "SYNCING_AGGREGATE"
    ELSE "IDLE"

IsPrefix(s, t) == Len(s) <= Len(t) /\ \A i \in DOMAIN s : s[i] = t[i]

\* C8: a cycle changes phase only IDLE -> SYNCING_AGENTS -> SYNCING_TRACES ->
\* SYNCING_AGGREGATE -> IDLE, each time from the last await of the phase it
\* leaves (or it leaves by the exception of a rejected store write), and it
\* calls upstashSet for the agents key, the traces key and the aggregate key in
\* that order.
C8_PhaseOrder ==
    [][\A c \in Cycles :
          /\ Phase(cyc'[c].pc) # Phase(cyc[c].pc) =>
                \/ <<cyc[c].pc, cyc'[c].pc>> \in
                      {<<"idle", "agents_read">>, <<"agents_trace", "traces_read">>,
                       <<"traces_trace", "state_set">>, <<"state_trace", "done">>}
                \/ cyc'[c].pc = "error"
          /\ IsPrefix(cyc'[c].sets, <<AgentsKey, TracesKey, StateKey>>)
          /\ Phase(cyc'[c].pc) = "SYNCING_TRACES" => Len(cyc'[c].sets) \in {1, 2}
          /\ Phase(cyc'[c].pc) = "SYNCING_AGGREGATE" => Len(cyc'[c].sets) \in {2, 3}]_vars

\* one cycle went through all its phases while the other was in the middle of its own
C8_Witness ==
    /\ cyc["timer"].pc = "done"
    /\ cyc["timer"].sets = <<AgentsKey, TracesKey, StateKey>>
    /\ Phase(cyc["manual"].pc) = "SYNCING_TRACES"

\* the steps of one cycle
CycleStep(c) ==
    \/ Trigger(c)
    \/ SyncAgentsRead(c, TRUE)
    \/ SyncTracesRead(c, TRUE)
    \/ \E o \in FetchOutcomes : CacheSet(c, o)
    \/ \E o \in FetchOutcomes : CacheExpire(c, o)
    \/ \E ok \in BOOLEAN : SyncAgentsWrite(c, ok)
    \/ CycleLogTrace(c, TRUE)

\* C9: with two cycles interleaving, a cycle that has not finished can always
\* take its next step whatever the other is doing, it ends in error only if its
\* own store write was rejected, and each cache key that holds a value holds
\* the whole value of the last SET executed for that key, the aggregate's
\* embedded summaries being those of the cycle that wrote it.
C9_LastWriteWins ==
    /\ \A c \in Cycles :
          /\ cyc[c].pc \notin {"done", "error"} => ENABLED CycleStep(c)
          /\ cyc[c].pc = "error" => cyc[c].ownReject
    /\ \A k \in CacheKeys :
          cache[k].present =>
              /\ Len(setLog[k]) > 0
              /\ cache[k].json = setLog[k][Len(setLog[k])]
    /\ cache[StateKey].present =>
          /\ cache[StateKey].json.agents.by = cache[StateKey].json.by
          /\ cache[StateKey].json.traces.by = cache[StateKey].json.by

\* both cycles have finished, both wrote the agents key, and the last writes of
\* two keys came from different cycles
C9_Witness ==
    /\ \A c \in Cycles : cyc[c].pc = "done"
    /\ Len(setLog[AgentsKey]) = 2
    /\ cache[AgentsKey].present /\ cache[AgentsKey].json.by = "timer"
    /\ cache[StateKey].present /\ cache[StateKey].json.by = "manual"

EscalatedUrgencies(ch) ==
    [k \in 1..Len(SelectSeq(ch, LAMBDA q : q.path = EscalatePath)) |->
        SelectSeq(ch, LAMBDA q : q.path = EscalatePath)[k].urgency]

\* the urgencies of the items at or above the threshold, in item order
UrgentUrgencies(items) ==
    [k \in 1..Len(SelectSeq(items, LAMBDA it : it.urgency >= EscalateUrgency)) |->
        SelectSeq(items, LAMBDA it : it.urgency >= EscalateUrgency)[k].urgency]

\* C11: an escalation with urgency u of 1..10 reaches the notification channel
\* exactly once when u >= 8 and not at all when u < 8; once LUKE has answered a
\* request, each item it extracted with urgency >= 8 has caused exactly one
\* escalation and no other item any.
C11_EscalatesAtThreshold ==
    /\ \A k \in DOMAIN chan : chan[k].path = EscalatePath => chan[k].urgency >= EscalateUrgency
    /\ (hnd.agent = "caller" /\ hnd.pc \in {"done", "error"}) =>
          Len(chan) = IF hnd.urgency >= EscalateUrgency THEN 1 ELSE 0
    /\ (hnd.agent = "LUKE" /\ hnd.pc \in {"done", "error"} /\ hnd.items # <<>>) =>
          EscalatedUrgencies(chan) = UrgentUrgencies(hnd.items)

\* C12: when the transport of an escalation of LUKE or IMAN fails, the handler
\* does not end in its catch block: it goes on with the remaining items,
\* answers status 'complete', and has sent no item's escalation twice.
C12_EscalationFailureNotSurfaced ==
    (hnd.agent \in {"LUKE", "IMAN"}
     /\ \E k \in DOMAIN chan : chan[k].path = EscalatePath /\ chan[k].outcome = "throws") =>
        /\ hnd.pc # "error"
        /\ hnd.pc = "done" => resp.status = "complete"
        /\ Len(chan) <= Len(hnd.items)

\* C13: a SHADOW cycle whose audit computed a trust score below 80 has
\* attempted one alert on the sms endpoint, and a cycle whose score is 80 or
\* more has attempted none.
C13_AlertBelowThreshold ==
    hnd.agent = "SHADOW" =>
        /\ hnd.trustScore < TrustAlertThreshold =>
              (Len(chan) = 1 /\ chan[1].path = SmsPath)
        /\ hnd.trustScore >= TrustAlertThreshold => chan = <<>>

\* C14: no request to the notification service carries a message longer than
\* the cap of its channel; the sms endpoint is taken with the larger of the
\* two caps applied to it (1500), and so is the escalation endpoint.
C14_MessagesWithinCap ==
    \A k \in DOMAIN chan : chan[k].len <= BriefingCap

(* ================== claims on dispatch and on responses ================= *)

Dispatchers == {"HEAR", "MARK", "QUILL", "HUNTER"}

\* the agent each dispatching handler calls
TargetOf(agent) ==
    IF agent = "QUILL" THEN "DRAFT" ELSE IF agent = "HUNTER" THEN "QUILL" ELSE "LUKE"

\* the last request was served by a dispatching handler that reached its
\* dispatch
Dispatched == hnd.agent \in Dispatchers /\ calls # <<>>

\* C15: a dispatching handler (HEAR, MARK, QUILL, HUNTER) whose target
\* answered HTTP 500 with { status: 'error' } answers status 'error' itself,
\* not 'complete'.
C15_TargetErrorFails ==
    (Dispatched /\ hnd.answer = ErrorAnswer) => resp.status = "error"

\* C16: a dispatch is exactly one request, to the endpoint of the target
\* agent, whose body is { intent, request }; the caller receives the JSON the
\* target answered, unchanged; and when the transport fails the caller ends
\* in its error response having made that one request and received no value.
C16_DispatchOnceUnchanged ==
    Dispatched =>
        /\ Len(calls) = 1
        /\ calls[1].url = EndpointOf(TargetOf(hnd.agent))
        /\ DOMAIN calls[1].body = {"intent", "request"}
        /\ hnd.answer.kind = "json" =>
              hnd.got = [status |-> hnd.answer.status, passed |-> hnd.answer.passed]
        /\ hnd.answer.kind = "throws" =>
              (resp.status = "error" /\ resp.code = 500 /\ hnd.got = NullRow)

\* a dispatch whose transport failed: one request, and the caller in error
C16_Witness ==
    /\ Dispatched
    /\ hnd.answer.kind = "throws"
    /\ Len(calls) = 1
    /\ resp.status = "error"

\* C17: every response is HTTP 200 with a JSON body, or HTTP 500 with the
\* JSON object { status: 'error', error }; no other status code is answered.
C17_OnlyTwoStatusCodes ==
    resp.op # "none" =>
        /\ resp.code \in {200, 500}
        /\ resp.code = 500 => resp.status = "error"
        /\ "type" \in DOMAIN resp => resp.type = "json"

\* C18: a request whose required input is missing or too short (LUKE: content
\* under 10 characters; HEAR, MARK: no transcript; VARA: no text) is answered
\* status 'skipped', and serving it writes nothing to the store, dispatches
\* nothing and escalates nothing.
C18_MissingInputSkips ==
    [][("missing" \in DOMAIN hnd' /\ hnd'.missing) =>
          /\ resp'.status = "skipped"
          /\ store' = store
          /\ calls' = <<>>
          /\ chan' = <<>>]_vars

(* ====================== claims on the cache's role ====================== *)

\* the cycle has made both of its reads
HasRead(c) == cyc[c].pc \notin {"idle"} \cup {SyncAllOrder[i] : i \in 1..6}

\* C19: what a sync cycle answers does not depend on the cache: the agent
\* count and the trace count of a cycle are those of the store as it was when
\* the cycle read it, whether the cache was empty or held another cycle's
\* values and whether its requests were executed or failed; two cycles that
\* read the same store answer the same counts; and a cycle ends in error only
\* when the store rejected its sync record.
C19_ResponseIgnoresCache ==
    /\ \A c \in Cycles :
          /\ HasRead(c) =>
                (cyc[c].agentCount = AgentsInStore(c) /\ Len(cyc[c].traces) = TracesInStore(c))
          /\ cyc[c].pc = "error" => cyc[c].ownReject
    /\ \A c, d \in Cycles :
          (HasRead(c) /\ HasRead(d) /\ cyc[c].agentsAt = cyc[d].agentsAt
             /\ cyc[c].tracesAt = cyc[d].tracesAt) =>
              /\ cyc[c].agentCount = cyc[d].agentCount
              /\ cyc[c].traces = cyc[d].traces

\* the two cycles read the same store and both completed; the one found the
\* cache populated by the other, and only one had its cache requests executed
C19_Witness ==
    /\ cyc["timer"].pc = "done"
    /\ cyc["manual"].pc = "done"
    /\ cyc["timer"].agentsAt = cyc["manual"].agentsAt
    /\ cyc["timer"].tracesAt = cyc["manual"].tracesAt
    /\ cyc["timer"].cacheApplied
    /\ ~cyc["manual"].cacheApplied
    /\ Len(cyc["timer"].traces) >= 1
    /\ cache[TracesKey].present

\* the agent-registry records in the store when the cycle read them
AgentRecordsPresent(c) ==
    Cardinality({i \in 1..cyc[c].agentsAt : store[i].memory_type = "aba_agents"})

\* C20: the agentCount syncAgents returns, and the one in every value it puts
\* under the agents-registry key, is the number of agent-registry records that
\* were in the store when it read them, whether the read succeeded or not.
C20_AgentCountIsStoreCount ==
    \A c \in Cycles :
        cyc[c].pc \notin {"idle", "agents_read"} =>
            /\ cyc[c].agentCount = AgentRecordsPresent(c)
            /\ \A k \in DOMAIN setLog[AgentsKey] :
                  setLog[AgentsKey][k].agentCount = AgentRecordsPresent(c)

(* ======================= claims on the cached values ==================== *)

\* the cycle has returned from the upstashSet call of syncTraces
TracesSetReturned(c) ==
    cyc[c].pc \in {"traces_trace", "state_set", "state_expire", "state_trace", "done"}

\* the trace-tagged records in the store when the cycle read them
TraceIdsRead(c) == {i \in 1..cyc[c].tracesAt : "trace" \in store[i].tags}

\* C21: once syncTraces has called upstashSet, the value under the traces key
\* has a TTL of 600 seconds, and the tail in it has at most 50 records and no
\* more than the traceCount beside it, is in descending order of created_at,
\* and holds the most recent of the trace-tagged records that were read.
C21_TracesTailCached ==
    \A c \in Cycles :
        (TracesSetReturned(c) /\ cache[TracesKey].present /\ cache[TracesKey].json.by = c) =>
            /\ cache[TracesKey].ttl = TracesTTL
            /\ "traces" \in DOMAIN cache[TracesKey].json =>
                  /\ Len(cache[TracesKey].json.traces) <= TraceTailCap
                  /\ Len(cache[TracesKey].json.traces) <= cache[TracesKey].json.traceCount
                  /\ \A i, j \in DOMAIN cache[TracesKey].json.traces :
                        i < j => store[cache[TracesKey].json.traces[i]].created_at
                                   >= store[cache[TracesKey].json.traces[j]].created_at
                  /\ \A i \in DOMAIN cache[TracesKey].json.traces, k \in TraceIdsRead(c) :
                        \/ k \in {cache[TracesKey].json.traces[n] : n \in DOMAIN cache[TracesKey].json.traces}
                        \/ store[k].created_at <= store[cache[TracesKey].json.traces[i]].created_at

(* --------------------------- repeated cycles ---------------------------- *)

\* the audits of the repeated cycles: all endpoints up, one down, all down
RepeatAudits ==
    {p \in [EndpointChecks -> BOOLEAN] :
        \A n, m \in EndpointChecks \ {"ABACIA_ALIVE"} : p[n] = p[m]}

\* SHADOW audits, LUKE extractions and IMAN inbox checks one after another,
\* the same inputs coming again and again, under every fault of the store and
\* of the notification service
RepeatNext ==
    \/ \E p \in RepeatAudits, ok \in DispatchInserts(store), o \in {"ok", "throws"} :
          Shadow(p, "array", ok, o)
    \/ \E c \in LukeContents, ok \in BOOLEAN : LukeStart(c, ok)
    \/ \E ok \in DispatchInserts(store), o \in FetchOutcomes : LukeItem(ok, o)
    \/ \E ok \in DispatchInserts(store) : LukeEnd(ok)
    \/ \E e \in ImanInboxes, ok \in BOOLEAN : ImanStart(e, ok)
    \/ \E o \in FetchOutcomes : ImanEscalate(o)
    \/ \E ok \in DispatchInserts(store) : ImanStore(ok)
    \/ \E ok \in DispatchInserts(store) : ImanEnd(ok)

RepeatSpec == Init /\ [][RepeatNext]_vars

(* ======================== claims on repeated alerts ===================== *)

\* the snapshots of audits that found the trust score under the threshold
AlertSnapshots(st) ==
    {i \in DOMAIN st : st[i].content = "SHADOW" /\ st[i].importance = SnapshotAlertImportance}

MaxCalls == 10

DefaultMaxAttempts == 8

Alternatives ==
    <<"Try a different approach", "Break the task into smaller steps", "Search for documentation",
      "Check for similar past solutions", "Simplify the requirements", "Ask clarifying questions",
      "Use a template or example", "Escalate with specific blockers">>

\* alternatives[attempts.length] || 'Try again with new context'
NextAlternative(attempts) ==
    IF attempts < Len(Alternatives) THEN Alternatives[attempts + 1] ELSE "Try again with new context"

AttemptMemory ==
    [content |-> "GRIT ATTEMPT", memory_type |-> "system", importance |-> 5, tags |-> {"grit", "attempt"}]

\* const { task, attempts = [], maxAttempts = 8 } = body: the default stands
\* in only where the request carries none
MaxAttemptsOf(body) == IF body.maxAttempts.given THEN body.maxAttempts.n ELSE DefaultMaxAttempts

\* the serve handler of GRIT: attempts.length >= maxAttempts is answered
\* 'exhausted'; else brainSearch, the next alternative, brainWrite, and the
\* answer 'trying'; every exception lands in the catch block
GritServe(st, now, body, searchOk, insertOk) ==
    IF ~body.parses
    THEN [store |-> st, clock |-> now,
          resp |-> [op |-> "grit", status |-> "error", code |-> 500, type |-> "json"]]
    ELSE IF body.attempts >= MaxAttemptsOf(body)
    THEN [store |-> st, clock |-> now,
          resp |-> [op |-> "grit", status |-> "exhausted", code |-> 200, type |-> "json",
                    attempts |-> body.attempts]]
    ELSE IF ~searchOk \/ BrainWrite(st, AttemptMemory, now, insertOk).raised
    THEN [store |-> st, clock |-> now,
          resp |-> [op |-> "grit", status |-> "error", code |-> 500, type |-> "json"]]
    ELSE [store |-> BrainWrite(st, AttemptMemory, now, insertOk).store, clock |-> now + 1,
          resp |-> [op |-> "grit", status |-> "trying", code |-> 200, type |-> "json",
                    attemptNumber |-> body.attempts + 1, maxAttempts |-> MaxAttemptsOf(body),
                    nextAlternative |-> NextAlternative(body.attempts)]]

\* the maxAttempts a request may carry
MaxAttemptsSent ==
    {[given |-> FALSE, n |-> 0], [given |-> TRUE, n |-> 3], [given |-> TRUE, n |-> 8],
     [given |-> TRUE, n |-> 10]}

GritInserts(st) == IF Len(st) < MaxCalls THEN BOOLEAN ELSE {FALSE}

\* one GRIT request; hnd keeps what the request carried and the alternatives
\* the task has been answered so far
GritCall(body, tried, searchOk, insertOk) ==
    /\ store' = GritServe(store, clock, body, searchOk, insertOk).store
    /\ clock' = GritServe(store, clock, body, searchOk, insertOk).clock
    /\ resp' = GritServe(store, clock, body, searchOk, insertOk).resp
    /\ hnd' = [agent |-> "GRIT",
               pc |-> IF GritServe(store, clock, body, searchOk, insertOk).resp.status = "error"
                      THEN "error" ELSE "done",
               attempts |-> body.attempts,
               tried |-> IF GritServe(store, clock, body, searchOk, insertOk).resp.status = "trying"
                         THEN Append(tried, NextAlternative(body.attempts))
                         ELSE tried]
    /\ chan' = <<>>
    /\ calls' = <<>>
    /\ UNCHANGED <<bf, syncVars>>

\* the first call for a task: no attempt made yet
GritFirst(parses, maxAttempts, searchOk, insertOk) ==
    GritCall([parses |-> parses, attempts |-> 0, maxAttempts |-> maxAttempts], <<>>, searchOk, insertOk)

\* a further call for the task: the caller has added the alternative it was
\* answered to attempts, or sends the request again after an error
GritAgain(maxAttempts, searchOk, insertOk) ==
    /\ hnd.agent = "GRIT"
    /\ resp.status \in {"trying", "error"}
    /\ GritCall([parses |-> TRUE,
                 attempts |-> IF resp.status = "trying" THEN hnd.attempts + 1 ELSE hnd.attempts,
                 maxAttempts |-> maxAttempts],
                hnd.tried, searchOk, insertOk)

GritNext ==
    \/ \E p \in BOOLEAN, m \in MaxAttemptsSent, s \in BOOLEAN, ok \in GritInserts(store) :
          GritFirst(p, m, s, ok)
    \/ \E m \in MaxAttemptsSent, s \in BOOLEAN, ok \in GritInserts(store) : GritAgain(m, s, ok)

GritSpec == Init /\ [][GritNext]_vars

(* ============================ claims on GRIT ============================ *)

\* C23: over the calls for a task, the caller adding one attempt per call,
\* GRIT answers 'trying' while fewer than 8 attempts have been made, each time
\* with an alternative it has not answered before, and answers 'exhausted'
\* once 8 have been made, whatever maxAttempts the requests carry.
C23_EightAlternatives ==
    (hnd.agent = "GRIT" /\ hnd.pc = "done") =>
        /\ hnd.attempts < DefaultMaxAttempts =>
              /\ resp.status = "trying"
              /\ \A i, j \in DOMAIN hnd.tried : i # j => hnd.tried[i] # hnd.tried[j]
        /\ hnd.attempts >= DefaultMaxAttempts => resp.status = "exhausted"

(* -------------------- LUKE as the target of a dispatch ----------------- *)

\* const content = body.content || '': the content LUKE reads off a request body
LukeContentOf(body) == IF "content" \in DOMAIN body THEN body.content ELSE ""

\* what LUKE answers to a request body: 'skipped' for a content shorter than
\* 10 characters, else 'complete', or 'error' when a step of its fails
LukeAnswers(body) ==
    IF Len(LukeContentOf(body)) < MinContentLength THEN {SkippedAnswer}
    ELSE {CompleteAnswer, ErrorAnswer}

\* HEAR with LUKE itself answering the dispatch
HearThroughLuke(body, insertOk) ==
    \E a \in TargetOutcomes :
        /\ Hear(body, insertOk, a)
        /\ calls' # <<>> => a \in LukeAnswers(calls'[1].body)

\* MARK with LUKE itself answering the dispatch
MarkThroughLuke(body, insertOk) ==
    \E a \in TargetOutcomes :
        /\ Mark(body, insertOk, a)
        /\ calls' # <<>> => a \in LukeAnswers(calls'[1].body)

\* LUKE asked directly with a body { content } and through HEAR and MARK
ExtractionNext ==
    \/ \E b \in HearBodies, ok \in DispatchInserts(store) : HearThroughLuke(b, ok)
    \/ \E b \in MarkBodies, ok \in DispatchInserts(store) : MarkThroughLuke(b, ok)
    \/ \E c \in LukeContents, ok \in BOOLEAN : LukeStart(c, ok)
    \/ \E ok \in DispatchInserts(store), o \in FetchOutcomes : LukeItem(ok, o)
    \/ \E ok \in DispatchInserts(store) : LukeEnd(ok)

ExtractionSpec == Init /\ [][ExtractionNext]_vars

(* ================= claims on the transcript sent to LUKE ================ *)

\* C24: when HEAR or MARK has dispatched a transcript of at least 10
\* characters to LUKE, the content LUKE reads off the request is that
\* transcript, and LUKE's answer is not 'skipped'.
C24_LukeExtractsTranscript ==
    (hnd.agent \in {"HEAR", "MARK"} /\ calls # <<>>
       /\ Len(calls[1].body.intent.content) >= MinContentLength) =>
        /\ LukeContentOf(calls[1].body) = calls[1].body.intent.content
        /\ hnd.answer.status # "skipped"

(* --------------------- RADAR's conflict detection ---------------------- *)

\* the events of a calendar and the minutes they lie in
MaxEvents == 3

MaxTime == 4

\* the calendars: events with start < end, ordered by start time as the
\* query (orderBy=startTime) returns them
SortedCalendars ==
    UNION {{c \in [1..n -> {Event(10, s, e) : s \in 1..MaxTime, e \in 1..MaxTime}] :
               /\ \A i \in 1..n : c[i].start < c[i].end
               /\ \A i \in 1..(n - 1) : c[i].start <= c[i + 1].start} : n \in 0..MaxEvents}

\* a calendar has been fetched and waits for checkForConflicts
ConflictInit ==
    /\ store = <<>>
    /\ clock = 1
    /\ resp = [op |-> "none"]
    /\ bf = IdleBackfill
    /\ cache = [k \in CacheKeys |-> Absent]
    /\ configured = TRUE
    /\ cyc = [c \in Cycles |-> IdleCycle]
    /\ rst = IdleRestore
    /\ setLog = [k \in CacheKeys |-> <<>>]
    /\ \E c \in SortedCalendars : hnd = [agent |-> "RADAR", pc |-> "fetched", events |-> c, conflicts |-> {}]
    /\ chan = <<>>
    /\ calls = <<>>

\* the conflicts checkForConflicts pushes, as pairs of positions in the list
ConflictPairs(events) == {<<i, i + 1>> : i \in CheckForConflicts(events)}

RadarConflicts ==
    /\ hnd.agent = "RADAR"
    /\ hnd.pc = "fetched"
    /\ hnd' = [hnd EXCEPT !.pc = "checked", !.conflicts = ConflictPairs(hnd.events)]
    /\ UNCHANGED <<store, clock, resp, bf, syncVars, chan, calls>>

ConflictSpec == ConflictInit /\ [][RadarConflicts]_vars

(* ==================== claims on conflict detection ====================== *)

\* two events overlap when the earlier one ends after the later one starts
Overlap(e, f) == e.start < f.end /\ f.start < e.end

\* C25: for a list of events ordered by start time, the conflicts reported
\* are the pairs of events whose intervals overlap, adjacent in the list or
\* not, and no other pair.
C25_AllOverlapsReported ==
    (hnd.agent = "RADAR" /\ hnd.pc = "checked") =>
        \A i, j \in DOMAIN hnd.events :
            i < j => (<<i, j>> \in hnd.conflicts <=> Overlap(hnd.events[i], hnd.events[j]))

(* --------------------------- SHADOW's audit ---------------------------- *)

\* an audit is about to run: the outcome each of its six checks will have
AuditInit ==
    /\ store = <<>>
    /\ clock = 1
    /\ resp = [op |-> "none"]
    /\ bf = IdleBackfill
    /\ cache = [k \in CacheKeys |-> Absent]
    /\ configured = TRUE
    /\ cyc = [c \in Cycles |-> IdleCycle]
    /\ rst = IdleRestore
    /\ setLog = [k \in CacheKeys |-> <<>>]
    /\ \E pass \in [EndpointChecks -> BOOLEAN], b \in BrainReadOutcomes :
          hnd = [agent |-> "SHADOW", pc |-> "auditing", pass |-> pass, brain |-> b,
                 trustScore |-> 100, checksPassed |-> 0]
    /\ chan = <<>>
    /\ calls = <<>>

\* runAudit returns its snapshot
Audit ==
    /\ hnd.agent = "SHADOW"
    /\ hnd.pc = "auditing"
    /\ hnd' = [hnd EXCEPT !.pc = "audited",
                          !.trustScore = RunAudit(hnd.pass, hnd.brain).trustScore,
                          !.checksPassed = RunAudit(hnd.pass, hnd.brain).checksPassed]
    /\ UNCHANGED <<store, clock, resp, bf, syncVars, chan, calls>>

AuditSpec == AuditInit /\ [][Audit]_vars

(* ======================== claims on the trust score ===================== *)

\* the weight the claim gives each check
WeightOf(name) ==
    IF name \in {"ABACIA_ALIVE", "REACH_ALIVE"} THEN 25
    ELSE IF name = "AIR_STATUS" THEN 15
    ELSE IF name = "BRAIN_READ" THEN 15 ELSE 10

\* the checks of the audit in hnd that did not pass; BRAIN_READ passes when
\* the read returned an array
FailedChecks ==
    {n \in EndpointChecks : ~hnd.pass[n]} \cup (IF hnd.brain = "array" THEN {} ELSE {"BRAIN_READ"})

RECURSIVE SumOfWeights(_)
SumOfWeights(S) ==
    IF S = {} THEN 0 ELSE WeightOf(CHOOSE n \in S : TRUE) + SumOfWeights(S \ {CHOOSE n \in S : TRUE})

\* C26: the trust score of an audit is max(0, 100 - the weights of the checks
\* that did not pass); it lies in 0..100 and is 100 only when all six passed.
C26_TrustScoreIsWeightedSum ==
    (hnd.agent = "SHADOW" /\ hnd.pc = "audited") =>
        /\ hnd.trustScore = Max(0, 100 - SumOfWeights(FailedChecks))
        /\ hnd.trustScore \in 0..100
        /\ hnd.trustScore = 100 => FailedChecks = {}

(* ===================== claims on LUKE's failed requests ================= *)

\* the items of LUKE's request whose iteration ran to its end or to a failed
\* escalation: those before position hnd.i
ItemsDone == SubSeq(hnd.items, 1, hnd.i - 1)

\* C27 as stated: at the step in which LUKE ends in its error response no
\* item of the request has been written before, none is written by that
\* step, and none has been escalated.
C27_FailedRequestLeavesNothing ==
    [][(hnd.agent = "LUKE" /\ hnd.pc = "loop" /\ hnd'.agent = "LUKE" /\ hnd'.pc = "error") =>
          (hnd.i = 1 /\ store' = store /\ chan' = <<>>)]_vars

\* C27 (amended): when LUKE has ended in its error response, the effects of
\* the request are those of the items before the failing step, in the order
\* of the loop: each of them is written to the store, the last rows of the
\* store being theirs, and each of them with urgency 8 or more has its
\* escalation request; no later item is written or escalated, and nothing
\* is undone.
C27_FailedRequestKeepsPrefix ==
    (hnd.agent = "LUKE" /\ hnd.pc = "error") =>
        /\ Len(ItemsDone) <= Len(hnd.items)
        /\ Len(ItemsDone) <= Len(store)
        /\ \A k \in DOMAIN ItemsDone :
              /\ store[Len(store) - Len(ItemsDone) + k].importance = ItemsDone[k].urgency
              /\ store[Len(store) - Len(ItemsDone) + k].tags = ItemMemory(ItemsDone[k]).tags
        /\ EscalatedUrgencies(chan) = UrgentUrgencies(ItemsDone)

\* LUKE failed on its second item after the first was written and escalated
C27_Witness ==
    /\ hnd.agent = "LUKE"
    /\ hnd.pc = "error"
    /\ Len(hnd.items) = 2
    /\ hnd.i = 2
    /\ Len(chan) = 1
    /\ chan[1].outcome = "ok"
    /\ store[Len(store)].importance = hnd.items[1].urgency

(* ======================== claims on the cache's TTL ===================== *)

\* the cycle has called upstashSet for the key and the call has returned
SetReturned(c, k) ==
    /\ \E i \in DOMAIN cyc[c].sets : cyc[c].sets[i] = k
    /\ ~(cyc[c].pc \in {"agents_expire", "traces_expire", "state_expire"} /\ KeyOf(cyc[c].pc) = k)

\* C28: once an upstashSet call for a key has returned, the key is not in the
\* cache without an expiry: it is absent or has a TTL, whichever of the two
\* requests failed.
C28_KeyNeverWithoutExpiry ==
    \A c \in Cycles, k \in CacheKeys :
        (SetReturned(c, k) /\ cache[k].present) => cache[k].ttl > 0

(* ===================== claims on the backfill's count =================== *)

\* C29: the processed count of a finished backfill is the number of the rows
\* of its batch that have an embedding in the store; a row whose update the
\* store rejected is not counted.
C29_ProcessedCountsStored ==
    bf.pc = "done" =>
        bf.processed = Cardinality({k \in DOMAIN bf.batch : store[bf.batch[k]].embedding # "null"})

(* ================= claims on the three cache keys together ============== *)

\* the summary part of the value under the traces key ({ ...state } without
\* the traces tail)
SummaryOf(json) == [by |-> json.by, traceCount |-> json.traceCount]

AllCompleted == \A c \in Cycles : cyc[c].pc \in {"done", "error"}

\* C30 as stated: once the concurrent cycles have completed and the three keys
\* hold values, the agents summary embedded in the aggregate is the value under
\* the agents key and the traces summary embedded in the aggregate is the
\* summary under the traces key.
C30_KeysMutuallyConsistent ==
    (AllCompleted /\ \A k \in CacheKeys : cache[k].present) =>
        /\ cache[StateKey].json.agents = cache[AgentsKey].json
        /\ cache[StateKey].json.traces = SummaryOf(cache[TracesKey].json)

\* C30 (amended): the aggregate embeds the summaries computed by the cycle
\* that wrote it; it agrees with the agents key, and with the traces key, when
\* the value under that key was written by the same cycle, and a key last
\* written by another cycle holds that cycle's summary.
C30_ConsistentWithOwnCycle ==
    cache[StateKey].present =>
        /\ cache[StateKey].json.agents.by = cache[StateKey].json.by
        /\ cache[StateKey].json.traces.by = cache[StateKey].json.by
        /\ (cache[AgentsKey].present /\ cache[AgentsKey].json.by = cache[StateKey].json.by) =>
               cache[StateKey].json.agents = cache[AgentsKey].json
        /\ (cache[TracesKey].present /\ cache[TracesKey].json.by = cache[StateKey].json.by) =>
               cache[StateKey].json.traces = SummaryOf(cache[TracesKey].json)
        /\ \A c \in Cycles :
               (cache[AgentsKey].present /\ cache[AgentsKey].json.by = c) =>
                   cache[AgentsKey].json = AgentsState(c, cyc[c].agentCount)

\* both cycles have completed and both wrote the agents key; the aggregate and
\* the traces key were last written by the timer's cycle and agree, the agents
\* key by the manual one
C30_Witness ==
    /\ AllCompleted
    /\ Len(setLog[AgentsKey]) = 2
    /\ \A k \in CacheKeys : cache[k].present
    /\ cache[StateKey].json.by = "timer"
    /\ cache[TracesKey].json.by = "timer"
    /\ cache[StateKey].json.traces = SummaryOf(cache[TracesKey].json)
    /\ cache[AgentsKey].json.by = "manual"
    /\ cache[StateKey].json.agents.agentCount >= 1

====
